---- MODULE Spec2Model ----
(***************************************************************************)
(* A model of the lolcathost daemon: the host-file manager (hosts.go), the *)
(* configuration store (config package) and the socket server (server.go). *)
(*                                                                         *)
(* Go strings are modelled as sequences of tokens.  A token is one of the  *)
(* whitespace characters NL, TAB, SP, or an atom: a TLA+ string standing   *)
(* for a run of characters that the code never looks inside.  Adjacent     *)
(* atoms stand for their concatenation.                                    *)
(***************************************************************************)
EXTENDS Integers, Sequences, FiniteSets, TLC

VARIABLES
    hostFile,      \* content of HostsPath
    tmpFile,       \* HostsPath + ".tmp": NoFile or <<content>>
    backups,       \* BackupDir: timestamp of hosts.<timestamp>.bak |-> content
    clock,         \* time.Now(), in seconds
    ret,           \* the last HostsManager call made by the harness and its result
    cfg,           \* Manager.config, the in-memory configuration
    cfgFile,       \* content of the configuration file (a Config value)
    conn,          \* per connection: the state of its handleConnection goroutine
    auditLog,      \* [logger |-> Server.auditLogger # nil, entries |-> those written]
    requestCount,  \* Server.requestCount
    buckets,       \* RateLimiter.buckets: pid |-> pidRateBucket
    committed,     \* history: the configurations at mutation boundaries
    watcher,       \* Manager.watcher: an event is pending; history of its loads
    listener,      \* Server.stopCh and Server.listener, and where Stop and acceptLoop are
    client         \* a client.Client on connection 1: its mutex and its callers

vars == <<hostFile, tmpFile, backups, clock, ret, cfg, cfgFile, conn, auditLog,
          requestCount, buckets, committed, watcher, listener, client>>

hostsVars == <<hostFile, tmpFile, backups, clock, ret>>
serverVars ==
    <<cfg, cfgFile, conn, auditLog, requestCount, buckets, committed, watcher, listener,
      client>>

\* an absent file; a file that exists is <<content>>
NoFile == <<>>
Nil == "Nil"

-----------------------------------------------------------------------------
(* Strings *)

NL == "\n"
TAB == "\t"
SP == " "

IsSpace(t) == t \in {NL, TAB, SP}

RECURSIVE SplitAcc(_, _, _)
SplitAcc(s, cur, acc) ==
    IF s = <<>> THEN Append(acc, cur)
    ELSE IF Head(s) = NL THEN SplitAcc(Tail(s), <<>>, Append(acc, cur))
    ELSE SplitAcc(Tail(s), Append(cur, Head(s)), acc)

\* strings.Split(s, "\n")
Split(s) == SplitAcc(s, <<>>, <<>>)

\* strings.Join(lines, "\n")
RECURSIVE Join(_)
Join(lines) ==
    IF lines = <<>> THEN <<>>
    ELSE IF Len(lines) = 1 THEN lines[1]
    ELSE lines[1] \o <<NL>> \o Join(Tail(lines))

RECURSIVE TrimLeft(_)
TrimLeft(s) == IF s # <<>> /\ IsSpace(Head(s)) THEN TrimLeft(Tail(s)) ELSE s

RECURSIVE TrimRight(_)
TrimRight(s) ==
    IF s # <<>> /\ IsSpace(s[Len(s)]) THEN TrimRight(SubSeq(s, 1, Len(s) - 1)) ELSE s

\* strings.TrimSpace(s)
TrimSpace(s) == TrimRight(TrimLeft(s))

\* strings.TrimRight(s, "\n")
RECURSIVE TrimRightNL(_)
TrimRightNL(s) ==
    IF s # <<>> /\ s[Len(s)] = NL THEN TrimRightNL(SubSeq(s, 1, Len(s) - 1)) ELSE s

-----------------------------------------------------------------------------
(* hosts.go: the host-file manager *)

MaxBackups == 10

markerStart == <<"# ========== LOLCATHOST MANAGED - DO NOT EDIT ==========">>
markerEnd == <<"# ========== END LOLCATHOST ==========">>

\* the loop of removeManagedSection over the lines
RECURSIVE RemoveLoop(_, _, _)
RemoveLoop(lines, inManagedSection, result) ==
    IF lines = <<>> THEN result
    ELSE LET line == Head(lines)
             trimmed == TrimSpace(line)
         IN  IF trimmed = markerStart THEN RemoveLoop(Tail(lines), TRUE, result)
             ELSE IF trimmed = markerEnd THEN RemoveLoop(Tail(lines), FALSE, result)
             ELSE IF ~inManagedSection
                  THEN RemoveLoop(Tail(lines), inManagedSection, Append(result, line))
                  ELSE RemoveLoop(Tail(lines), inManagedSection, result)

\* "Remove trailing empty lines"
RECURSIVE DropTrailingEmpty(_)
DropTrailingEmpty(result) ==
    IF Len(result) > 0 /\ TrimSpace(result[Len(result)]) = <<>>
    THEN DropTrailingEmpty(SubSeq(result, 1, Len(result) - 1))
    ELSE result

removeManagedSection(content) ==
    Join(DropTrailingEmpty(RemoveLoop(Split(content), FALSE, <<>>)))

\* fmt.Sprintf("%s\t%s\t# lolcathost:%s\n", entry.IP, entry.Domain, entry.Alias)
FormatEntry(entry) ==
    entry.IP \o <<TAB>> \o entry.Domain \o <<TAB, "#", SP, "lolcathost:">>
        \o entry.Alias \o <<NL>>

RECURSIVE EntryLines(_)
EntryLines(entries) ==
    IF entries = <<>> THEN <<>>
    ELSE (IF Head(entries).Enabled THEN FormatEntry(Head(entries)) ELSE <<>>)
             \o EntryLines(Tail(entries))

buildManagedSection(entries) ==
    markerStart \o <<NL>> \o EntryLines(entries) \o markerEnd \o <<NL>>

\* the runs of non-blank characters of a line, the \S+ of entryRegex
RECURSIVE RunsAcc(_, _, _)
RunsAcc(s, cur, acc) ==
    LET done == IF cur = <<>> THEN acc ELSE Append(acc, cur)
    IN  IF s = <<>> THEN done
        ELSE IF IsSpace(Head(s)) THEN RunsAcc(Tail(s), <<>>, done)
        ELSE RunsAcc(Tail(s), Append(cur, Head(s)), acc)

\* entryRegex.FindStringSubmatch(line), ^(\S+)\s+(\S+)\s+#\s*lolcathost:(\S+)$,
\* on a trimmed line: <<ip, domain, alias>>, or <<>> when the line does not match
entryRegex(line) ==
    LET runs == RunsAcc(line, <<>>, <<>>)
        tag == IF Len(runs) = 4 /\ runs[3] = <<"#">> THEN runs[4]
               ELSE IF Len(runs) = 3 /\ Len(runs[3]) > 0 /\ Head(runs[3]) = "#"
                    THEN Tail(runs[3])
               ELSE <<>>
    IN  IF Len(tag) >= 2 /\ Head(tag) = "lolcathost:"
        THEN <<runs[1], runs[2], Tail(tag)>>
        ELSE <<>>

\* the loop of ReadManagedEntries over the lines
RECURSIVE ReadLoop(_, _, _)
ReadLoop(lines, inManagedSection, entries) ==
    IF lines = <<>> THEN entries
    ELSE LET line == TrimSpace(Head(lines))
             matches == entryRegex(line)
         IN  IF line = markerStart THEN ReadLoop(Tail(lines), TRUE, entries)
             ELSE IF line = markerEnd THEN ReadLoop(Tail(lines), FALSE, entries)
             ELSE IF /\ inManagedSection /\ line # <<>>
                     /\ Head(line) \notin {"#", Head(markerStart), Head(markerEnd)}
                     /\ matches # <<>>
                  THEN ReadLoop(Tail(lines), inManagedSection,
                                Append(entries, [IP |-> matches[1], Domain |-> matches[2],
                                                 Alias |-> matches[3], Enabled |-> TRUE]))
                  ELSE ReadLoop(Tail(lines), inManagedSection, entries)

\* ReadManagedEntries, on the content of the host file
ReadManagedEntries(content) == ReadLoop(Split(content), FALSE, <<>>)

\* the content WriteManagedEntries computes from the content it read
NewHostsContent(content, entries) ==
    TrimRightNL(removeManagedSection(content)) \o <<NL, NL>>
        \o buildManagedSection(entries)

SetMax(S) == CHOOSE x \in S : \A y \in S : y <= x

\* the n highest names of a set of backup names (sort descending, keep the head)
RECURSIVE Highest(_, _)
Highest(S, n) ==
    IF n = 0 \/ S = {} THEN {}
    ELSE {SetMax(S)} \cup Highest(S \ {SetMax(S)}, n - 1)

\* a rotation that removes the highest names instead of the lowest
cleanupBackupsNewestFirst(dir) ==
    LET excess == Cardinality(DOMAIN dir) - MaxBackups
    IN  IF excess <= 0 THEN dir
        ELSE [n \in DOMAIN dir \ Highest(DOMAIN dir, excess) |-> dir[n]]

cleanupBackups(dir) ==
    IF Cardinality(DOMAIN dir) <= MaxBackups THEN dir
    ELSE [n \in Highest(DOMAIN dir, MaxBackups) |-> dir[n]]

\* the backup directory after a successful CreateBackup at time now
CreateBackup(dir, content, now) ==
    cleanupBackups([n \in DOMAIN dir \cup {now} |-> IF n = now THEN content ELSE dir[n]])

\* A file name is a sequence of atoms: "hosts", ".", "bak", "/", "..", a
\* timestamp rendered as one atom.  The backup taken at time ts is
\* hosts.<ts>.bak (fmt.Sprintf("hosts.%s.bak", timestamp)).
BackupName(ts) == <<"hosts", ".", ToString(ts), ".", "bak">>

\* a file of the backup directory that no CreateBackup wrote: hosts.bak.  The
\* directory is keyed by timestamp; this file has the key StrayKey, above every
\* timestamp, as "hosts.b" sorts after "hosts.<digit>".
StrayKey == MaxBackups * 1000
StrayName == <<"hosts", ".", "bak">>

FileName(key) == IF key = StrayKey THEN StrayName ELSE BackupName(key)

HasPrefix(s, prefix) == Len(s) >= Len(prefix) /\ SubSeq(s, 1, Len(prefix)) = prefix

HasSuffix(s, suffix) ==
    Len(s) >= Len(suffix) /\ SubSeq(s, Len(s) - Len(suffix) + 1, Len(s)) = suffix

\* filepath.Base: "." for the empty path; trailing separators are stripped;
\* "/" for a path of separators only; else what follows the last separator
RECURSIVE StripSlashes(_)
StripSlashes(name) ==
    IF name # <<>> /\ name[Len(name)] = "/" THEN StripSlashes(SubSeq(name, 1, Len(name) - 1))
    ELSE name

Base(name) ==
    LET path == StripSlashes(name)
        seps == {i \in 1..Len(path) : path[i] = "/"}
    IN  IF name = <<>> THEN <<".">>
        ELSE IF path = <<>> THEN <<"/">>
        ELSE IF seps = {} THEN path
        ELSE SubSeq(path, SetMax(seps) + 1, Len(path))

\* filepath.Base(name) != name || !HasPrefix(name, "hosts.") || !HasSuffix(name, ".bak")
ValidBackupName(name) ==
    ~(\/ Base(name) # name
      \/ ~HasPrefix(name, <<"hosts", ".">>)
      \/ ~HasSuffix(name, <<".", "bak">>))

\* os.ReadFile(filepath.Join(backupDir, name)): the key of the file of the
\* directory that has the name, or -1 if there is none
NameKey(dir, name) ==
    IF \E k \in DOMAIN dir : FileName(k) = name
    THEN CHOOSE k \in DOMAIN dir : FileName(k) = name
    ELSE -1

-----------------------------------------------------------------------------
(* The HostsManager called sequentially, as hosts_test.go calls it. *)

MaxLines == 3
MaxClock == 10
MaxTick == 1

Ent(ip, domain, alias, enabled) ==
    [IP |-> <<ip>>, Domain |-> <<domain>>, Alias |-> <<alias>>, Enabled |-> enabled]

EntryLists ==
    { <<>>,
      <<Ent("10.0.0.1", "a.test", "a", TRUE)>>,
      <<Ent("10.0.0.1", "a.test", "a", FALSE), Ent("10.0.0.2", "b.test", "b", TRUE)>> }

\* the lines an initial host file is made of
LineAlphabet ==
    { <<"127.0.0.1", TAB, "localhost">>, <<"::1", SP, "ip6-localhost">>, <<>>, <<SP>>,
      markerStart, <<SP>> \o markerEnd, markerEnd }

RECURSIVE SeqsUpTo(_, _)
SeqsUpTo(S, n) ==
    IF n = 0 THEN {<<>>}
    ELSE LET shorter == SeqsUpTo(S, n - 1)
         IN  shorter \cup {Append(q, x) : q \in shorter, x \in S}

InitialContents == {Join(ls) : ls \in SeqsUpTo(LineAlphabet, MaxLines) \ {<<>>}}

ServerIdle ==
    /\ cfg = Nil /\ cfgFile = Nil /\ conn = <<>> /\ auditLog = Nil
    /\ requestCount = 0 /\ buckets = <<>> /\ committed = {} /\ watcher = Nil
    /\ listener = Nil /\ client = Nil

\* the file hosts.bak that somebody put into the backup directory
StrayContent == <<"10.9.9.9", TAB, "stray", NL>>

InitHosts ==
    /\ hostFile \in InitialContents
    /\ tmpFile = NoFile
    /\ backups = <<>>
    /\ clock = 0
    /\ ret = [op |-> "none", name |-> <<>>, err |-> ""]
    /\ ServerIdle

\* a WriteManagedEntries that takes its backup after it has written the file
WriteManagedEntriesBackupLate(entries, fail) ==
    /\ ret' = [op |-> "WriteManagedEntries", name |-> <<>>, err |-> fail]
    /\ hostFile' = IF fail = "" THEN NewHostsContent(hostFile, entries) ELSE hostFile
    /\ backups' = IF fail = "backup" THEN backups
                  ELSE CreateBackup(backups, hostFile', clock)
    /\ UNCHANGED <<tmpFile, clock>>
    /\ UNCHANGED serverVars

\* WriteManagedEntries(entries), with the step at which it fails ("" for none)
WriteManagedEntries(entries, fail) ==
    /\ ret' = [op |-> "WriteManagedEntries", name |-> <<>>, err |-> fail]
    /\ backups' = IF fail = "backup" THEN backups
                  ELSE CreateBackup(backups, hostFile, clock)
    /\ hostFile' = IF fail = "" THEN NewHostsContent(hostFile, entries) ELSE hostFile
    /\ UNCHANGED <<tmpFile, clock>>
    /\ UNCHANGED serverVars

\* a RestoreBackup that reads the backup file after it has taken the fresh backup
RestoreBackupReadLate(name, fail) ==
    LET found == ValidBackupName(name) /\ NameKey(backups, name) \in DOMAIN backups
        err == IF ~ValidBackupName(name) THEN "name"
               ELSE IF ~found THEN "readbackup"
               ELSE fail
    IN  /\ ret' = [op |-> "RestoreBackup", name |-> name, err |-> err]
        /\ backups' = IF err \in {"name", "readbackup", "backup"} THEN backups
                      ELSE CreateBackup(backups, hostFile, clock)
        /\ hostFile' = IF err = "" /\ NameKey(backups', name) \in DOMAIN backups'
                       THEN backups'[NameKey(backups', name)] ELSE hostFile
        /\ UNCHANGED <<tmpFile, clock>>
        /\ UNCHANGED serverVars

\* RestoreBackup(name), with the step at which it fails ("" for none)
RestoreBackup(name, fail) ==
    LET found == ValidBackupName(name) /\ NameKey(backups, name) \in DOMAIN backups
        err == IF ~ValidBackupName(name) THEN "name"
               ELSE IF ~found THEN "readbackup"
               ELSE fail
    IN  /\ ret' = [op |-> "RestoreBackup", name |-> name, err |-> err]
        /\ backups' = IF err \in {"name", "readbackup", "backup"} THEN backups
                      ELSE CreateBackup(backups, hostFile, clock)
        /\ hostFile' = IF err = "" THEN backups[NameKey(backups, name)] ELSE hostFile
        /\ UNCHANGED <<tmpFile, clock>>
        /\ UNCHANGED serverVars

\* GetBackupContent(name)
GetBackupContent(name) ==
    LET err == IF ~ValidBackupName(name) THEN "name"
               ELSE IF NameKey(backups, name) \notin DOMAIN backups THEN "readbackup"
               ELSE ""
    IN  /\ ret' = [op |-> "GetBackupContent", name |-> name, err |-> err]
        /\ UNCHANGED <<hostFile, tmpFile, backups, clock>>
        /\ UNCHANGED serverVars

\* the wall clock, which names the backups, moves (in either direction)
SetClock(bound) ==
    /\ clock' \in (0..bound) \ {clock}
    /\ UNCHANGED <<hostFile, tmpFile, backups, ret>>
    /\ UNCHANGED serverVars

RestoreNames(bound) ==
    {BackupName(ts) : ts \in 0..bound}
        \cup { <<"..", "/">> \o BackupName(0), BackupName(0) \o <<"/">>, <<"passwd">>, <<>>,
               <<"hosts", ".", "/", "x", ".", "bak">>, StrayName }

Failures == {"", "backup", "write"}

NextHosts ==
    \/ \E e \in EntryLists, f \in Failures : WriteManagedEntries(e, f)
    \/ \E n \in {BackupName(0), <<"..", "/">> \o BackupName(0), <<"passwd">>}, f \in Failures :
          RestoreBackup(n, f)

SpecHosts == InitHosts /\ [][NextHosts]_vars

\* Writes and rollbacks while the clock moves, as in
\* TestHostsManager_RestoreBackup: a rollback to a backup of an earlier
\* second, of the same second, or of a later one.
InitRollback ==
    /\ hostFile \in {<<"127.0.0.1", TAB, "localhost", NL>>, StrayContent}
    /\ tmpFile = NoFile
    /\ backups \in {<<>>, [k \in {StrayKey} |-> StrayContent]}
    /\ clock = 0
    /\ ret = [op |-> "none", name |-> <<>>, err |-> ""]
    /\ ServerIdle

NextRollback ==
    \/ \E e \in EntryLists, f \in Failures : WriteManagedEntries(e, f)
    \/ \E n \in RestoreNames(MaxTick), f \in Failures : RestoreBackup(n, f)
    \/ \E n \in RestoreNames(MaxTick) : GetBackupContent(n)
    \/ SetClock(MaxTick)

SpecRollback == InitRollback /\ [][NextRollback]_vars

\* A host file that is already reconciled, and a backup directory that is
\* empty or full.
Reconciled == NewHostsContent(<<"127.0.0.1", TAB, "localhost", NL>>, <<>>)

InitBackups ==
    /\ hostFile = Reconciled
    /\ tmpFile = NoFile
    /\ backups \in {<<>>, [n \in 1..MaxBackups |-> Reconciled]}
    /\ clock \in 0..MaxClock
    /\ ret = [op |-> "none", name |-> <<>>, err |-> ""]
    /\ ServerIdle

NextBackups ==
    \/ \E f \in Failures : WriteManagedEntries(<<>>, f)
    \/ \E ts \in {0, MaxClock}, f \in Failures : RestoreBackup(BackupName(ts), f)
    \/ SetClock(MaxClock)

SpecBackups == InitBackups /\ [][NextBackups]_vars

-----------------------------------------------------------------------------
(* Claims about the host-file manager *)

\* the lines of a content that lie outside every start-marker...end-marker
\* span, the marker lines themselves left out
RECURSIVE OutsideLoop(_, _)
OutsideLoop(lines, result) ==
    IF lines = <<>> THEN result
    ELSE LET trimmed == TrimSpace(Head(lines))
             rest == Tail(lines)
             ends == {i \in 1..Len(rest) : TrimSpace(rest[i]) = markerEnd}
         IN  IF trimmed = markerStart /\ ends # {}
             THEN OutsideLoop(SubSeq(rest, (CHOOSE i \in ends : \A j \in ends : i <= j) + 1,
                                     Len(rest)), result)
             ELSE IF trimmed \in {markerStart, markerEnd} THEN OutsideLoop(rest, result)
             ELSE OutsideLoop(rest, Append(result, Head(lines)))

OutsideLines(content) == DropTrailingEmpty(OutsideLoop(Split(content), <<>>))

\* C3: a successful reconcile leaves every line outside a start-marker...
\* end-marker span in place, unchanged and in the same order; only trailing
\* blank lines may differ.
C3_OutsidePreserved ==
    [][(ret'.op = "WriteManagedEntries" /\ ret'.err = "")
           => OutsideLines(hostFile') = OutsideLines(hostFile)]_vars

\* C11: a rollback to an existing backup B leaves the host file equal to the
\* content B held when the rollback was requested, and the fresh backup,
\* named after the current time, holds the host file as it was before the
\* rollback (the fresh backup exists unless the rotation removed it, which it
\* can only do when the directory was full and held a later name).
C11_Rollback ==
    [][(clock' = clock /\ ret'.op = "RestoreBackup" /\ ret'.err = "")
           => /\ NameKey(backups, ret'.name) \in DOMAIN backups
              /\ hostFile' = backups[NameKey(backups, ret'.name)]
              /\ clock \in DOMAIN backups' => backups'[clock] = hostFile
              /\ (\/ Cardinality(DOMAIN backups) < MaxBackups
                  \/ \A k \in DOMAIN backups : k <= clock) => clock \in DOMAIN backups']_vars

\* a rollback at time 1 to the backup of time 0 has succeeded and changed the
\* host file
C11_Witness ==
    /\ ret = [op |-> "RestoreBackup", name |-> BackupName(0), err |-> ""]
    /\ clock = 1 /\ {0, 1} \subseteq DOMAIN backups
    /\ hostFile = backups[0] /\ backups[1] # hostFile

\* the name is not its own base name, or does not match hosts.*.bak
Unmatched(name) ==
    \/ Base(name) # name
    \/ ~(Len(name) >= 4 /\ HasPrefix(name, <<"hosts", ".">>) /\ HasSuffix(name, <<".", "bak">>))

\* C12: a rollback or backup_content whose name differs from its base name
\* or does not match hosts.*.bak returns an error and leaves every file as it
\* was.
C12_NoTraversal ==
    [][(clock' = clock /\ ret'.op \in {"RestoreBackup", "GetBackupContent"}
            /\ Unmatched(ret'.name))
           => /\ ret'.err # ""
              /\ UNCHANGED <<hostFile, tmpFile, backups>>]_vars

\* C27: a WriteManagedEntries or RestoreBackup that fails before or at its
\* backup leaves the host file and the backup directory as they were; any
\* other has written a backup named after the current second that holds the
\* host file as it was before the call, and that backup is in the directory
\* afterwards unless the directory held MaxBackups files and one with a later
\* name; the host file changes only in a call that returns no error.
C27_BackupFirst ==
    [][(clock' = clock /\ ret'.op \in {"WriteManagedEntries", "RestoreBackup"})
          => /\ ret'.err \in {"name", "readbackup", "backup"}
                   => hostFile' = hostFile /\ backups' = backups
             /\ ret'.err \notin {"name", "readbackup", "backup"}
                   => /\ clock \in DOMAIN backups' => backups'[clock] = hostFile
                      /\ (\/ Cardinality(DOMAIN backups) < MaxBackups
                          \/ \A k \in DOMAIN backups : k <= clock)
                             => clock \in DOMAIN backups'
             /\ hostFile' # hostFile => ret'.err = ""]_vars

\* a reconcile has changed the host file, and the backup of the current
\* second holds the file as it was; an earlier backup holds another content
C27_Witness ==
    /\ ret = [op |-> "WriteManagedEntries", name |-> <<>>, err |-> ""]
    /\ clock = 1 /\ {0, 1} \subseteq DOMAIN backups
    /\ backups[1] # hostFile
    /\ backups[0] # backups[1]
    /\ ReadManagedEntries(hostFile) # <<>>

BackupNames == DOMAIN backups

\* the call the harness made last created its backup
PastBackup == ret.op # "none" /\ ret.err \in {"", "write"}

-----------------------------------------------------------------------------
(* The config package: operations on a Config value.                       *)
(* A Config is [Settings |-> [AutoApply], Groups |-> <<[Name, Hosts]>>, Presets |-> <<[Name, Enable, *)
(* Disable]>>]; a Host is [Domain, IP, Alias, Enabled].  Domain, IP and     *)
(* Alias are token sequences, group and preset names are plain strings.     *)

\* s with its i-th element removed: append(s[:i], s[i+1:]...)
RemoveAt(s, i) == SubSeq(s, 1, i - 1) \o SubSeq(s, i + 1, Len(s))

\* the index of the first element of s whose Name is name, or 0
IndexOfName(s, name) ==
    LET hits == {i \in 1..Len(s) : s[i].Name = name}
    IN  IF hits = {} THEN 0 ELSE CHOOSE i \in hits : \A j \in hits : i <= j

RECURSIVE GetAllHosts(_)
GetAllHosts(groups) ==
    IF groups = <<>> THEN <<>> ELSE Head(groups).Hosts \o GetAllHosts(Tail(groups))

\* the positions <<i, j>> of the hosts; the nested loops visit them in order
HostPositions(c) ==
    UNION {{<<i, j>> : j \in 1..Len(c.Groups[i].Hosts)} : i \in 1..Len(c.Groups)}

Before(p, q) == p[1] < q[1] \/ (p[1] = q[1] /\ p[2] < q[2])

NoHost == <<>>

\* FindHostByAlias: the position of the first host with the alias, or NoHost
FindHostByAlias(c, alias) ==
    LET hits == {p \in HostPositions(c) : c.Groups[p[1]].Hosts[p[2]].Alias = alias}
    IN  IF hits = {} THEN NoHost
        ELSE CHOOSE p \in hits : \A q \in hits : p = q \/ Before(p, q)

HostAt(c, p) == c.Groups[p[1]].Hosts[p[2]]

FindPreset(c, name) == IndexOfName(c.Presets, name)

GroupIndex(c, name) == IndexOfName(c.Groups, name)

SetHostEnabled(c, alias, enabled) ==
    LET p == FindHostByAlias(c, alias)
    IN  IF p = NoHost THEN c
        ELSE [c EXCEPT !.Groups[p[1]].Hosts[p[2]].Enabled = enabled]

\* strings.ToLower on the characters the model uses
ToLowerToken(t) == IF t = "A" THEN "a" ELSE IF t = "APPLE" THEN "apple" ELSE t

ToLower(s) == [i \in 1..Len(s) |-> ToLowerToken(s[i])]

\* ReplaceAll(".", "-") and ReplaceAll("_", "-"), then ToLower
AliasBase(domain) ==
    ToLower([i \in 1..Len(domain) |-> IF domain[i] \in {".", "_"} THEN "-" ELSE domain[i]])

\* the loop of GenerateAlias; counter is rendered by %d as one token
RECURSIVE GenerateLoop(_, _, _, _)
GenerateLoop(c, baseAlias, alias, counter) ==
    IF FindHostByAlias(c, alias) = NoHost THEN alias
    ELSE GenerateLoop(c, baseAlias, baseAlias \o <<"-", ToString(counter + 1)>>, counter + 1)

GenerateAlias(c, domain) == GenerateLoop(c, AliasBase(domain), AliasBase(domain), 1)

\* the second half of AddHost: "Find or create group"
AppendHost(c, host, groupName) ==
    LET i == GroupIndex(c, groupName)
    IN  IF i # 0 THEN [c EXCEPT !.Groups[i].Hosts = Append(@, host)]
        ELSE [c EXCEPT !.Groups = Append(@, [Name |-> groupName, Hosts |-> <<host>>])]

\* The operations below return [err |-> BOOLEAN, cfg |-> the configuration after].

\* an AddGroup that appends the group before it looks for the name
AddGroupAppendFirst(c, name) ==
    [err |-> GroupIndex(c, name) # 0,
     cfg |-> [c EXCEPT !.Groups = Append(@, [Name |-> name, Hosts |-> <<>>])]]

AddGroup(c, name) ==
    IF GroupIndex(c, name) # 0 THEN [err |-> TRUE, cfg |-> c]
    ELSE [err |-> FALSE,
          cfg |-> [c EXCEPT !.Groups = Append(@, [Name |-> name, Hosts |-> <<>>])]]

DeleteGroup(c, name) ==
    LET i == GroupIndex(c, name)
    IN  IF i = 0 THEN [err |-> TRUE, cfg |-> c]
        ELSE [err |-> FALSE, cfg |-> [c EXCEPT !.Groups = RemoveAt(@, i)]]

RenameGroup(c, oldName, newName) ==
    LET i == GroupIndex(c, oldName)
    IN  IF GroupIndex(c, newName) # 0 \/ i = 0 THEN [err |-> TRUE, cfg |-> c]
        ELSE [err |-> FALSE, cfg |-> [c EXCEPT !.Groups[i].Name = newName]]

DeleteHost(c, alias) ==
    LET p == FindHostByAlias(c, alias)
    IN  IF p = NoHost THEN [err |-> TRUE, cfg |-> c]
        ELSE [err |-> FALSE, cfg |-> [c EXCEPT !.Groups[p[1]].Hosts = RemoveAt(@, p[2])]]

AddPreset(c, name, enable, disable) ==
    IF FindPreset(c, name) # 0 THEN [err |-> TRUE, cfg |-> c]
    ELSE [err |-> FALSE,
          cfg |-> [c EXCEPT !.Presets = Append(@, [Name |-> name, Enable |-> enable,
                                                    Disable |-> disable])]]

DeletePreset(c, name) ==
    LET i == FindPreset(c, name)
    IN  IF i = 0 THEN [err |-> TRUE, cfg |-> c]
        ELSE [err |-> FALSE, cfg |-> [c EXCEPT !.Presets = RemoveAt(@, i)]]

\* blockedDomains, as token sequences
blockedDomains ==
    { <<"apple", ".", "com">>, <<"icloud", ".", "com">>,
      <<"icloud", "-", "content", ".", "com">>,
      <<"apple", "-", "dns", ".", "cn">>, <<"apple", "-", "dns", ".", "net">>,
      <<"mzstatic", ".", "com">>,
      <<"itunes", ".", "apple", ".", "com">>,
      <<"updates", ".", "apple", ".", "com">> }


IsBlockedDomain(domain) ==
    \/ ToLower(domain) \in blockedDomains
    \/ \E blocked \in blockedDomains : HasSuffix(ToLower(domain), <<".">> \o blocked)

\* The atoms of a domain, an alias or an IP address: ".", "-", "_" and white
\* space stand for themselves, an address is one atom, and every other atom is
\* a run of letters and digits.
IsAlnum(t) == t \notin {NL, TAB, SP, ".", "-", "_"}

\* the atoms that are two or more letters and nothing else
IsLetters(t) ==
    t \in {"test", "com", "apple", "APPLE", "pine", "www", "icloud", "localhost", "zz"}

\* domainRegex: labels of letters, digits and inner hyphens, each followed by a
\* dot, then two or more letters; or localhost
ValidateDomain(domain) ==
    \/ domain = <<"localhost">>
    \/ /\ Len(domain) >= 3
       /\ IsLetters(domain[Len(domain)]) /\ domain[Len(domain) - 1] = "."
       /\ IsAlnum(domain[1])
       /\ \A i \in 1..Len(domain) : IsAlnum(domain[i]) \/ domain[i] \in {".", "-"}
       /\ \A i \in 1..(Len(domain) - 1) :
             /\ domain[i] = "." => IsAlnum(domain[i + 1])
             /\ domain[i + 1] = "." => IsAlnum(domain[i])

\* net.ParseIP(ip) != nil, for the addresses of the model
ValidateIP(ip) ==
    /\ Len(ip) = 1
    /\ ip[1] \in {"10.0.0.1", "10.0.0.2", "10.0.0.3", "127.0.0.1", "::1"}

\* aliasRegex: a letter or digit, then letters, digits, "_" and "-"
ValidateAlias(alias) ==
    /\ alias # <<>>
    /\ IsAlnum(alias[1])
    /\ \A i \in 1..Len(alias) : IsAlnum(alias[i]) \/ alias[i] \in {"-", "_"}

\* validateHost without the uniqueness of the alias
validateHost(h) ==
    /\ ValidateDomain(h.Domain)
    /\ ~IsBlockedDomain(h.Domain)
    /\ ValidateIP(h.IP)
    /\ ValidateAlias(h.Alias)

\* ValidateConfig(cfg) returns nil
ValidateConfig(c) ==
    /\ \A i \in 1..Len(c.Groups) : c.Groups[i].Name # ""
    /\ \A p \in HostPositions(c) : validateHost(HostAt(c, p))
    /\ \A p, q \in HostPositions(c) : p # q => HostAt(c, p).Alias # HostAt(c, q).Alias
    /\ \A i \in 1..Len(c.Presets) : c.Presets[i].Name # ""

\* the entries syncHostsFile builds from the configuration
HostEntries(c) ==
    LET hosts == GetAllHosts(c.Groups)
    IN  [i \in 1..Len(hosts) |->
            [IP |-> hosts[i].IP, Domain |-> hosts[i].Domain, Alias |-> hosts[i].Alias,
             Enabled |-> hosts[i].Enabled]]

-----------------------------------------------------------------------------
(* Peer credentials and authorization (server.go, security helpers) *)

LolcathostGID == 850

\* Numbers that may exceed the model checker's integers are kept as their
\* decimal digits without leading zeros.

\* 1<<32 - 1, the largest value strconv.ParseUint(s, 10, 32) accepts
MaxUint32 == <<"4", "2", "9", "4", "9", "6", "7", "2", "9", "5">>

NilCreds == [nil |-> TRUE]
Creds(uid, gid, pid) == [nil |-> FALSE, UID |-> uid, GID |-> gid, PID |-> pid]

Digits == <<"0", "1", "2", "3", "4", "5", "6", "7", "8", "9">>

DigitValue(d) == (CHOOSE i \in 1..10 : Digits[i] = d) - 1

IsDigit(d) == \E i \in 1..10 : Digits[i] = d

RECURSIVE StripZeros(_)
StripZeros(s) == IF Len(s) > 1 /\ Head(s) = "0" THEN StripZeros(Tail(s)) ELSE s

\* a < b for digit sequences of the same length
RECURSIVE DigitsLess(_, _)
DigitsLess(a, b) ==
    /\ a # <<>>
    /\ \/ DigitValue(Head(a)) < DigitValue(Head(b))
       \/ Head(a) = Head(b) /\ DigitsLess(Tail(a), Tail(b))

\* strconv.ParseUint(s, 10, 32) on a sequence of characters: <<value>>, or
\* <<>> for a syntax or range error
ParseUint(s) ==
    IF s = <<>> \/ \E i \in 1..Len(s) : ~IsDigit(s[i]) THEN <<>>
    ELSE LET v == StripZeros(s)
         IN  IF Len(v) > Len(MaxUint32) \/ (Len(v) = Len(MaxUint32) /\ DigitsLess(MaxUint32, v))
             THEN <<>>
             ELSE <<v>>

\* the decimal digits of a natural number
RECURSIVE Uint(_)
Uint(n) == IF n < 10 THEN <<Digits[n + 1]>> ELSE Append(Uint(n \div 10), Digits[(n % 10) + 1])

\* What user.LookupId(uid) and u.GroupIds() return on this machine:
\* err is "" or the call that fails, groupIDs the group id strings.
Uids == {0, 1000, 1001, 1002, 1003, 1004}

UserDb ==
    [uid \in Uids |->
        CASE uid = 0 -> [err |-> "", groupIDs |-> << <<"0">> >>]
          [] uid = 1000 -> [err |-> "", groupIDs |-> << <<"1", "0", "0", "0">>, <<"8", "5", "0">> >>]
          [] uid = 1001 ->
                 [err |-> "",
                  groupIDs |-> << <<"1", "0", "0", "1">>, <<"S", "-", "1", "-", "5">>,
                                  <<"8", "5", "0", "0">>,
                                  <<"4", "2", "9", "4", "9", "6", "8", "1", "4", "6">> >>]
          [] uid = 1002 -> [err |-> "LookupId", groupIDs |-> <<>>]
          [] uid = 1003 -> [err |-> "GroupIds", groupIDs |-> <<>>]
          [] uid = 1004 -> [err |-> "", groupIDs |-> << <<"8", "5", "0">> >>]]

isUserInGroup(uid, targetGID) ==
    LET u == UserDb[uid]
    IN  /\ u.err = ""
        /\ \E i \in 1..Len(u.groupIDs) : ParseUint(u.groupIDs[i]) = <<Uint(targetGID)>>

\* an authorization that leaves out the primary group
isAuthorizedNoPrimary(creds) ==
    /\ ~creds.nil
    /\ creds.UID = 0 \/ isUserInGroup(creds.UID, LolcathostGID)

isAuthorized(creds) ==
    IF creds.nil THEN FALSE
    ELSE IF creds.UID = 0 THEN TRUE
    ELSE IF creds.GID = LolcathostGID THEN TRUE
    ELSE isUserInGroup(creds.UID, LolcathostGID)

-----------------------------------------------------------------------------
(* The rate limiter (security helpers) *)

\* the limit and window the model's server passes to NewRateLimiter
Limit == 2
Window == 1

\* the slots of the ring buffer that hold a request, oldest first
BucketIndexes(bucket) ==
    [i \in 1..bucket.count |-> ((bucket.head - bucket.count + (i - 1) + Limit) % Limit) + 1]

ValidCount(bucket, now) ==
    Cardinality({i \in 1..bucket.count :
                    bucket.timestamps[BucketIndexes(bucket)[i]] > now - Window})

NewBucket == [timestamps |-> [i \in 1..Limit |-> 0], head |-> 0, count |-> 0]

BucketOf(bs, pid) == IF pid \in DOMAIN bs THEN bs[pid] ELSE NewBucket

\* a limiter that admits a request while the bucket holds no more than limit
\* valid entries
AllowedInclusive(bs, pid, now) == ValidCount(BucketOf(bs, pid), now) <= Limit

\* Allow(pid): whether the request is allowed
Allowed(bs, pid, now) == ValidCount(BucketOf(bs, pid), now) < Limit

\* an Allow that always writes the first slot of the ring
AfterAllowFirstSlot(bs, pid, now) ==
    LET bucket == BucketOf(bs, pid)
        added == [timestamps |-> [bucket.timestamps EXCEPT ![1] = now],
                  head |-> 0,
                  count |-> IF bucket.count < Limit THEN bucket.count + 1 ELSE bucket.count]
    IN  [p \in DOMAIN bs \cup {pid} |->
            IF p = pid THEN (IF Allowed(bs, pid, now) THEN added ELSE bucket) ELSE bs[p]]

\* Allow(pid): the buckets afterwards
AfterAllow(bs, pid, now) ==
    LET bucket == BucketOf(bs, pid)
        added == [timestamps |-> [bucket.timestamps EXCEPT ![bucket.head + 1] = now],
                  head |-> (bucket.head + 1) % Limit,
                  count |-> IF bucket.count < Limit THEN bucket.count + 1 ELSE bucket.count]
    IN  [p \in DOMAIN bs \cup {pid} |->
            IF p = pid THEN (IF Allowed(bs, pid, now) THEN added ELSE bucket) ELSE bs[p]]

\* a Cleanup that deletes a bucket as soon as one of its timestamps has expired
CleanedAnyExpired(bs, now) ==
    LET keep == {pid \in DOMAIN bs : ValidCount(bs[pid], now) = bs[pid].count}
    IN  [pid \in keep |-> bs[pid]]

\* Cleanup: the buckets afterwards; hasValid is that some recorded timestamp
\* is after the cutoff
Cleaned(bs, now) ==
    LET keep == {pid \in DOMAIN bs : ValidCount(bs[pid], now) > 0}
    IN  [pid \in keep |-> bs[pid]]

-----------------------------------------------------------------------------
(* Requests and connections (protocol package, server.go) *)

\* the connections, and the number of lines their peers send in all
Conns == {1, 2}
MaxRequests == 2

serverVarsButConn ==
    <<cfg, cfgFile, auditLog, requestCount, buckets, committed, watcher, listener, client>>

\* a Request with every payload field; HasPayload is Payload # nil
NoRequest ==
    [Type |-> "", HasPayload |-> FALSE, Alias |-> <<>>, Domain |-> <<>>, IP |-> <<>>,
     Group |-> "", Name |-> "", NewName |-> "", Enabled |-> FALSE, Force |-> FALSE,
     Enable |-> <<>>, Disable |-> <<>>, BackupName |-> <<>>]

Request(type, payload) == payload @@ [NoRequest EXCEPT !.Type = type, !.HasPayload = TRUE]

\* a line of input: json.Unmarshal fails on it, or yields req
BadLine == [json |-> FALSE, req |-> NoRequest]
Line(req) == [json |-> TRUE, req |-> req]

\* the locals of the handler goroutine that survive from one step to the next;
\* msg is what the message of an INTERNAL_ERROR response starts with; observed,
\* stages and before (the files and the configuration when the request was
\* read) are history
NoLocals ==
    [k |-> 0, alias |-> <<>>, ops |-> <<>>, domain |-> <<>>, data |-> <<>>,
     entries |-> <<>>, newContent |-> <<>>, code |-> "", msg |-> "", observed |-> <<>>,
     stages |-> <<>>, before |-> <<>>]

\* st: "none" (not connected), "accepted", "reading" (authorized), "closed".
\* pc: the position of handleConnection within the request it is handling.
\* authorized, lines, handled, counted and log are history: what isAuthorized
\* returned, how many lines the peer has sent, how many were routed to
\* handleRequest and how many were counted, and the reads of request lines
\* and writes of their responses, in order, with the time of each.
NoConn ==
    [st |-> "none", creds |-> NilCreds, authorized |-> "unknown", inbox |-> <<>>,
     sent |-> <<>>, pc |-> "idle",
     req |-> NoRequest, loc |-> NoLocals, lines |-> 0, handled |-> 0, counted |-> 0,
     log |-> <<>>]

\* reader.ReadBytes returned a line at time now; what: "bad" (no JSON),
\* "limited" or "routed" (to handleRequest)
ReadEvent(now, what) == [ev |-> "read", at |-> now, what |-> what]

\* writeResponse wrote a response with the code at time now
WriteEvent(now, code) == [ev |-> "write", at |-> now, what |-> code]

SumLines(cn) == cn[1].lines + cn[2].lines

\* AuditLogger.Log; c, the connection, is history
AuditEntry(c, creds, action, success) ==
    [conn |-> c, uid |-> IF creds.nil THEN 0 ELSE creds.UID,
     pid |-> IF creds.nil THEN 0 ELSE creds.PID, action |-> action, success |-> success]

\* an audit log that records nothing
DropLog(log, entry) == log

Log(log, entry) ==
    IF log.logger THEN [log EXCEPT !.entries = Append(@, entry)] ELSE log

\* a handleRequest that records the requests that change the configuration
AuditedMutating ==
    {"set", "preset", "add", "delete", "add_group", "delete_group", "rename_group",
     "add_preset", "delete_preset"}

\* the request types whose response handleRequest records in the audit log
Audited ==
    {"set", "sync", "preset", "rollback", "add", "delete", "add_group", "delete_group",
     "rename_group", "add_preset", "delete_preset"}

\* handlers that call syncHostsFile after every successful Save
SyncsAlways(type) == TRUE

\* the handlers that call syncHostsFile after a successful Save
SyncsAfterSave(type) == type \in {"set", "add", "delete", "preset", "delete_group"}

\* listener.Accept and the start of handleConnection: getPeerCredentials
Accept(c, creds) ==
    /\ conn[c].st = "none"
    /\ conn' = [conn EXCEPT ![c].st = "accepted", ![c].creds = creds]
    /\ UNCHANGED serverVarsButConn
    /\ UNCHANGED hostsVars

\* the peer writes a line to the socket
PeerSendUpTo(c, line, max) ==
    /\ conn[c].st \in {"accepted", "reading"}
    /\ SumLines(conn) < max
    /\ conn' = [conn EXCEPT ![c].inbox = Append(@, line), ![c].lines = @ + 1]
    /\ UNCHANGED serverVarsButConn
    /\ UNCHANGED hostsVars

PeerSend(c, line) == PeerSendUpTo(c, line, MaxRequests)

\* handleConnection, the authorization check
Authorize(c) ==
    /\ conn[c].st = "accepted"
    /\ IF isAuthorized(conn[c].creds)
       THEN /\ conn' = [conn EXCEPT ![c].st = "reading", ![c].authorized = "yes"]
            /\ UNCHANGED auditLog
       ELSE /\ conn' = [conn EXCEPT ![c].sent = Append(@, "UNAUTHORIZED"),
                                    ![c].st = "closed", ![c].authorized = "no"]
            /\ auditLog' = Log(auditLog, AuditEntry(c, conn[c].creds, "connect", FALSE))
    /\ UNCHANGED <<cfg, cfgFile, requestCount, buckets, committed, watcher, listener, client>>
    /\ UNCHANGED hostsVars

\* handleConnection, one turn of the loop up to the call of handleRequest
CanReadEarly(x) == x.st = "reading" /\ x.inbox # <<>>

\* the loop of handleConnection is at reader.ReadBytes and a line has arrived
CanRead(x) == x.st = "reading" /\ x.pc = "idle" /\ x.inbox # <<>>

\* a loop that counts the request before it asks the rate limiter
ReadRequestCountFirst(c) ==
    /\ CanRead(conn[c])
    /\ LET line == Head(conn[c].inbox)
           pid == conn[c].creds.PID
       IN  IF ~line.json
           THEN /\ conn' = [conn EXCEPT
                     ![c].inbox = Tail(@),
                     ![c].sent = Append(@, "INVALID_REQUEST"),
                     ![c].log = @ \o <<ReadEvent(clock, "bad"),
                                       WriteEvent(clock, "INVALID_REQUEST")>>]
                /\ UNCHANGED <<requestCount, buckets>>
           ELSE IF ~conn[c].creds.nil /\ ~Allowed(buckets, pid, clock)
           THEN /\ conn' = [conn EXCEPT
                     ![c].inbox = Tail(@),
                     ![c].sent = Append(@, "RATE_LIMITED"),
                     ![c].log = @ \o <<ReadEvent(clock, "limited"),
                                       WriteEvent(clock, "RATE_LIMITED")>>]
                /\ requestCount' = requestCount + 1
                /\ UNCHANGED buckets
           ELSE /\ conn' = [conn EXCEPT ![c].inbox = Tail(@), ![c].pc = "begin",
                                        ![c].req = line.req, ![c].handled = @ + 1,
                                        ![c].counted = @ + 1,
                                        ![c].loc.before =
                                            <<[hostFile |-> hostFile, backups |-> backups,
                                               cfg |-> cfg, cfgFile |-> cfgFile]>>,
                                        ![c].log = Append(@, ReadEvent(clock, "routed"))]
                /\ requestCount' = requestCount + 1
                /\ buckets' = IF conn[c].creds.nil THEN buckets
                              ELSE AfterAllow(buckets, pid, clock)
    /\ UNCHANGED <<cfg, cfgFile, auditLog, committed, watcher, listener, client>>
    /\ UNCHANGED hostsVars

\* handleConnection: a line is read, parsed, checked by the limiter, counted
ReadRequest(c) ==
    /\ CanRead(conn[c])
    /\ LET line == Head(conn[c].inbox)
           pid == conn[c].creds.PID
       IN  IF ~line.json
           THEN /\ conn' = [conn EXCEPT
                     ![c].inbox = Tail(@),
                     ![c].sent = Append(@, "INVALID_REQUEST"),
                     ![c].log = @ \o <<ReadEvent(clock, "bad"),
                                       WriteEvent(clock, "INVALID_REQUEST")>>]
                /\ UNCHANGED <<requestCount, buckets>>
           ELSE IF ~conn[c].creds.nil /\ ~Allowed(buckets, pid, clock)
           THEN /\ conn' = [conn EXCEPT
                     ![c].inbox = Tail(@),
                     ![c].sent = Append(@, "RATE_LIMITED"),
                     ![c].log = @ \o <<ReadEvent(clock, "limited"),
                                       WriteEvent(clock, "RATE_LIMITED")>>]
                /\ UNCHANGED <<requestCount, buckets>>
           ELSE /\ conn' = [conn EXCEPT ![c].inbox = Tail(@), ![c].pc = "begin",
                                        ![c].req = line.req, ![c].handled = @ + 1,
                                        ![c].counted = @ + 1,
                                        ![c].loc.before =
                                            <<[hostFile |-> hostFile, backups |-> backups,
                                               cfg |-> cfg, cfgFile |-> cfgFile]>>,
                                        ![c].log = Append(@, ReadEvent(clock, "routed"))]
                /\ requestCount' = requestCount + 1
                /\ buckets' = IF conn[c].creds.nil THEN buckets
                              ELSE AfterAllow(buckets, pid, clock)
    /\ UNCHANGED <<cfg, cfgFile, auditLog, committed, watcher, listener, client>>
    /\ UNCHANGED hostsVars

\* a handleConnection that also returns after it has answered a parse failure
HangupAfterBadLine(c) ==
    /\ conn[c].st = "reading" /\ conn[c].pc = "idle"
    /\ \/ conn[c].inbox = <<>>
       \/ conn[c].sent # <<>> /\ conn[c].sent[Len(conn[c].sent)] = "INVALID_REQUEST"
    /\ conn' = [conn EXCEPT ![c].st = "closed"]
    /\ UNCHANGED serverVarsButConn
    /\ UNCHANGED hostsVars

\* the peer closes its end: ReadBytes returns an error and the handler returns
Hangup(c) ==
    /\ conn[c].st = "reading" /\ conn[c].pc = "idle" /\ conn[c].inbox = <<>>
    /\ conn' = [conn EXCEPT ![c].st = "closed"]
    /\ UNCHANGED serverVarsButConn
    /\ UNCHANGED hostsVars

-----------------------------------------------------------------------------
(* The handlers (server.go), one action per step that touches shared state *)

Mutating ==
    {"set", "add", "delete", "preset", "add_group", "delete_group", "rename_group",
     "add_preset", "delete_preset"}

\* what handleList, handleListGroups and handleListPresets put in the response
ListView(c) ==
    LET ps == HostPositions(c)
    IN  {[Group |-> c.Groups[p[1]].Name, Pos |-> p, Host |-> HostAt(c, p)] : p \in ps}

View(type, c) ==
    CASE type = "list" -> <<"list", ListView(c)>>
      [] type = "list_groups" -> <<"list_groups", [i \in 1..Len(c.Groups) |-> c.Groups[i].Name]>>
      [] OTHER -> <<"list_presets", c.Presets>>

\* what handleStatus puts in the response: RequestCount
StatusData == <<"status", requestCount>>

\* the checks a handler makes before it touches the configuration:
\* the error code, or "" to go on
Precheck(r) ==
    CASE r.Type \notin Mutating \cup {"rollback"} -> ""
      [] ~r.HasPayload -> "INVALID_REQUEST"
      [] r.Type = "add" ->
             IF r.Domain = <<>> THEN "INVALID_DOMAIN"
             ELSE IF r.IP = <<>> THEN "INVALID_IP"
             ELSE IF r.Group = "" THEN "INVALID_REQUEST"
             ELSE IF IsBlockedDomain(r.Domain) THEN "BLOCKED_DOMAIN"
             ELSE ""
      [] r.Type = "delete" -> IF r.Alias = <<>> THEN "INVALID_REQUEST" ELSE ""
      [] r.Type \in {"add_group", "delete_group", "add_preset", "delete_preset"} ->
             IF r.Name = "" THEN "INVALID_REQUEST" ELSE ""
      [] r.Type = "rename_group" ->
             IF r.Name = "" \/ r.NewName = "" THEN "INVALID_REQUEST" ELSE ""
      [] OTHER -> ""

WithCode(l, code) == [l EXCEPT !.code = code]

\* NewErrorResponse(ErrCodeInternalError, fmt.Sprintf("...: %v", err))
WithError(l, msg) == [l EXCEPT !.code = "INTERNAL_ERROR", !.msg = msg]

\* handleRequest up to the handler's first access to shared state
Begin(c) ==
    /\ conn[c].pc = "begin"
    /\ LET r == conn[c].req
           l == conn[c].loc
           found == ValidBackupName(r.BackupName) /\ NameKey(backups, r.BackupName) \in DOMAIN backups
       IN  conn' =
             IF Precheck(r) # ""
             THEN [conn EXCEPT ![c].pc = "respond", ![c].loc = WithCode(l, Precheck(r))]
             ELSE IF r.Type \in Mutating
             THEN [conn EXCEPT ![c].pc = "mutate", ![c].loc.k = 1]
             ELSE IF r.Type = "sync" THEN [conn EXCEPT ![c].pc = "snapshot"]
             ELSE IF r.Type = "rollback"
             THEN IF found
                  THEN [conn EXCEPT ![c].pc = "backup",
                                    ![c].loc.newContent = backups[NameKey(backups, r.BackupName)]]
                  ELSE [conn EXCEPT ![c].pc = "respond",
                                    ![c].loc = WithError(l, "failed to read backup")]
             ELSE IF r.Type \in {"list", "list_groups", "list_presets"}
             THEN [conn EXCEPT ![c].pc = "respond",
                               ![c].loc = [l EXCEPT !.code = "OK",
                                                    !.observed = <<View(r.Type, cfg)>>]]
             ELSE IF r.Type = "status"
             THEN [conn EXCEPT ![c].pc = "respond",
                               ![c].loc = [l EXCEPT !.code = "OK",
                                                    !.observed = <<StatusData>>]]
             ELSE IF r.Type \in {"ping", "backups"}
             THEN [conn EXCEPT ![c].pc = "respond", ![c].loc = WithCode(l, "OK")]
             ELSE [conn EXCEPT ![c].pc = "respond",
                               ![c].loc = WithCode(l, "INVALID_REQUEST")]
    /\ UNCHANGED serverVarsButConn
    /\ UNCHANGED hostsVars

\* an ApplyPreset that disables first and enables second
PresetOpsDisableFirst(preset) ==
    [i \in 1..Len(preset.Disable) |-> [alias |-> preset.Disable[i], enabled |-> FALSE]]
        \o [i \in 1..Len(preset.Enable) |-> [alias |-> preset.Enable[i], enabled |-> TRUE]]

\* the operations ApplyPreset performs: SetHostEnabled(alias, enabled), in order
PresetOps(preset) ==
    [i \in 1..Len(preset.Enable) |-> [alias |-> preset.Enable[i], enabled |-> TRUE]]
        \o [i \in 1..Len(preset.Disable) |-> [alias |-> preset.Disable[i], enabled |-> FALSE]]

\* a conflict check that ignores force
SetConflictIgnoringForce(c, r) ==
    LET host == HostAt(c, FindHostByAlias(c, r.Alias))
    IN  /\ r.Enabled
        /\ \E p \in HostPositions(c) :
              /\ HostAt(c, p).Alias # r.Alias
              /\ HostAt(c, p).Domain = host.Domain
              /\ HostAt(c, p).Enabled

\* handleSet's "Check for conflicts if enabling"
SetConflict(c, r) ==
    LET host == HostAt(c, FindHostByAlias(c, r.Alias))
    IN  /\ r.Enabled /\ ~r.Force
        /\ \E p \in HostPositions(c) :
              /\ HostAt(c, p).Alias # r.Alias
              /\ HostAt(c, p).Domain = host.Domain
              /\ HostAt(c, p).Enabled

Fail(c, l, code) == [cfg |-> c, pc |-> "respond", loc |-> WithCode(l, code)]
Done(c, l) == [cfg |-> c, pc |-> "marshal", loc |-> l]
More(c, l) == [cfg |-> c, pc |-> "mutate", loc |-> [l EXCEPT !.k = @ + 1]]

\* the result [err, cfg] of a config operation, as the handler's next step
Result(res, l, code) == IF res.err THEN Fail(res.cfg, l, code) ELSE Done(res.cfg, l)

\* One step of a handler's work on the configuration: step l.k of request r on
\* configuration c.  A step ends after one read-then-decide or one write.
MutateStep(c, r, l) ==
    CASE r.Type = "add" ->
             IF l.k = 1
             THEN IF r.Alias = <<>>
                  THEN More(c, [l EXCEPT !.alias = GenerateAlias(c, r.Domain)])
                  ELSE IF FindHostByAlias(c, r.Alias) # NoHost THEN Fail(c, l, "CONFLICT")
                  ELSE More(c, [l EXCEPT !.alias = r.Alias])
             ELSE Done(AppendHost(c, [Domain |-> r.Domain, IP |-> r.IP, Alias |-> l.alias,
                                       Enabled |-> r.Enabled], r.Group), l)
      [] r.Type = "set" ->
             IF l.k = 1
             THEN IF FindHostByAlias(c, r.Alias) = NoHost THEN Fail(c, l, "NOT_FOUND")
                  ELSE IF SetConflict(c, r) THEN Fail(c, l, "CONFLICT")
                  ELSE More(c, l)
             ELSE Done(SetHostEnabled(c, r.Alias, r.Enabled), l)
      [] r.Type = "preset" ->
             IF l.k = 1
             THEN IF FindPreset(c, r.Name) = 0 THEN Fail(c, l, "NOT_FOUND")
                  ELSE IF PresetOps(c.Presets[FindPreset(c, r.Name)]) = <<>> THEN Done(c, l)
                  ELSE More(c, [l EXCEPT !.ops = PresetOps(c.Presets[FindPreset(c, r.Name)])])
             ELSE LET op == l.ops[l.k - 1]
                      after == SetHostEnabled(c, op.alias, op.enabled)
                  IN  IF l.k - 1 = Len(l.ops) THEN Done(after, l) ELSE More(after, l)
      [] r.Type = "delete" -> Result(DeleteHost(c, r.Alias), l, "NOT_FOUND")
      [] r.Type = "add_group" -> Result(AddGroup(c, r.Name), l, "CONFLICT")
      [] r.Type = "delete_group" -> Result(DeleteGroup(c, r.Name), l, "NOT_FOUND")
      [] r.Type = "rename_group" -> Result(RenameGroup(c, r.Name, r.NewName), l, "NOT_FOUND")
      [] r.Type = "add_preset" ->
             Result(AddPreset(c, r.Name, r.Enable, r.Disable), l, "CONFLICT")
      [] OTHER -> Result(DeletePreset(c, r.Name), l, "NOT_FOUND")

\* a handler has applied part of a preset
Partial(x) == x.pc = "mutate" /\ x.req.Type = "preset" /\ x.loc.k > 2

Mutate(c) ==
    /\ conn[c].pc = "mutate"
    /\ LET step == MutateStep(cfg, conn[c].req, conn[c].loc)
       IN  /\ cfg' = step.cfg
           /\ conn' = [conn EXCEPT ![c].pc = step.pc, ![c].loc = step.loc]
    /\ committed' = IF \E d \in Conns : Partial(conn'[d]) THEN committed
                    ELSE committed \cup {cfg'}
    /\ UNCHANGED <<cfgFile, auditLog, requestCount, buckets, watcher, listener, client>>
    /\ UNCHANGED hostsVars

\* Save: yaml.Marshal(cfg)
Marshal(c) ==
    /\ conn[c].pc = "marshal"
    /\ conn' = [conn EXCEPT ![c].pc = "write", ![c].loc.data = <<cfg>>]
    /\ UNCHANGED serverVarsButConn
    /\ UNCHANGED hostsVars

\* a handler that goes on to the reconcile when Save has failed
WriteConfigSyncAnyway(c, ok) ==
    /\ conn[c].pc = "write"
    /\ LET l == conn[c].loc
       IN  IF ok
           THEN /\ cfgFile' = l.data[1]
                /\ conn' = [conn EXCEPT
                     ![c].loc = [l EXCEPT !.stages = Append(@, "persist"), !.code = "OK"],
                     ![c].pc = IF SyncsAfterSave(conn[c].req.Type) THEN "snapshot"
                               ELSE "respond"]
           ELSE /\ UNCHANGED cfgFile
                /\ conn' = [conn EXCEPT ![c].pc = "snapshot"]
    /\ UNCHANGED <<cfg, auditLog, requestCount, buckets, committed, watcher, listener, client>>
    /\ UNCHANGED hostsVars

\* Save: os.WriteFile(m.path, data), which succeeds or not, and the return
\* to the handler
WriteConfig(c, ok) ==
    /\ conn[c].pc = "write"
    /\ LET l == conn[c].loc
       IN  IF ok
           THEN /\ cfgFile' = l.data[1]
                /\ conn' = [conn EXCEPT
                     ![c].loc = [l EXCEPT !.stages = Append(@, "persist"), !.code = "OK"],
                     ![c].pc = IF SyncsAfterSave(conn[c].req.Type) THEN "snapshot"
                               ELSE "respond"]
           ELSE /\ UNCHANGED cfgFile
                /\ conn' = [conn EXCEPT ![c].pc = "respond",
                                        ![c].loc = WithError(l, "failed to save config")]
    /\ UNCHANGED <<cfg, auditLog, requestCount, buckets, committed, watcher, listener, client>>
    /\ UNCHANGED hostsVars

\* syncHostsFile: build the entries from the configuration
Snapshot(c) ==
    /\ conn[c].pc = "snapshot"
    /\ conn' = [conn EXCEPT ![c].pc = "backup", ![c].loc.entries = HostEntries(cfg),
                            ![c].loc.data = <<>>]
    /\ UNCHANGED serverVarsButConn
    /\ UNCHANGED hostsVars

\* WriteManagedEntries or RestoreBackup: CreateBackup, which succeeds or not
Backup(c, ok) ==
    /\ conn[c].pc = "backup"
    /\ LET l == [conn[c].loc EXCEPT !.stages = Append(@, "rebuild")]
       IN  IF ok
           THEN /\ backups' = CreateBackup(backups, hostFile, clock)
                /\ conn' = [conn EXCEPT
                     ![c].loc = l,
                     ![c].pc = IF conn[c].req.Type = "rollback" THEN "tmp" ELSE "read"]
           ELSE /\ UNCHANGED backups
                /\ conn' = [conn EXCEPT
                     ![c].pc = "respond",
                     ![c].loc = WithError(l, IF conn[c].req.Type = "rollback"
                                             THEN "failed to create backup before restore"
                                             ELSE "failed to create backup")]
    /\ UNCHANGED <<hostFile, tmpFile, clock, ret>>
    /\ UNCHANGED serverVarsButConn

\* WriteManagedEntries: read the host file and compute the new content
ReadHosts(c) ==
    /\ conn[c].pc = "read"
    /\ conn' = [conn EXCEPT ![c].pc = "tmp",
                            ![c].loc.newContent = NewHostsContent(hostFile, conn[c].loc.entries)]
    /\ UNCHANGED serverVarsButConn
    /\ UNCHANGED hostsVars

\* a write of the new content straight into the host file, which a failure
\* leaves truncated
WriteInPlace(c, ok) ==
    /\ conn[c].pc = "tmp"
    /\ IF ok
       THEN /\ hostFile' = conn[c].loc.newContent
            /\ conn' = [conn EXCEPT ![c].pc = "flush"]
       ELSE /\ hostFile' = <<>>
            /\ conn' = [conn EXCEPT
                 ![c].pc = "respond",
                 ![c].loc = WithError(conn[c].loc, "failed to write hosts file")]
    /\ UNCHANGED <<tmpFile, backups, clock, ret>>
    /\ UNCHANGED serverVarsButConn

\* writeAtomic: os.WriteFile(tmpFile, content), which succeeds or not
WriteTmp(c, ok) ==
    /\ conn[c].pc = "tmp"
    /\ IF ok
       THEN /\ tmpFile' = <<conn[c].loc.newContent>>
            /\ conn' = [conn EXCEPT ![c].pc = "rename"]
       ELSE /\ UNCHANGED tmpFile
            /\ conn' = [conn EXCEPT
                 ![c].pc = "respond",
                 ![c].loc = WithError(conn[c].loc, IF conn[c].req.Type = "rollback"
                                                   THEN "failed to restore backup"
                                                   ELSE "failed to write hosts file")]
    /\ UNCHANGED <<hostFile, backups, clock, ret>>
    /\ UNCHANGED serverVarsButConn

\* writeAtomic: os.Rename(tmpFile, hostsPath), which fails if the temporary
\* file is gone, and os.Remove(tmpFile) if it fails
Rename(c, ok) ==
    /\ conn[c].pc = "rename"
    /\ IF ok /\ tmpFile # NoFile
       THEN /\ hostFile' = tmpFile[1]
            /\ conn' = [conn EXCEPT ![c].pc = "flush"]
       ELSE /\ UNCHANGED hostFile
            /\ conn' = [conn EXCEPT
                 ![c].pc = "respond",
                 ![c].loc = WithError(conn[c].loc, IF conn[c].req.Type = "rollback"
                                                   THEN "failed to restore backup"
                                                   ELSE "failed to write hosts file")]
    /\ tmpFile' = NoFile
    /\ UNCHANGED <<backups, clock, ret>>
    /\ UNCHANGED serverVarsButConn

\* flusher.Flush(), which succeeds or not; handleRollback ignores the result
Flush(c, ok) ==
    /\ conn[c].pc = "flush"
    /\ LET l == [conn[c].loc EXCEPT !.stages = Append(@, "flush")]
       IN  conn' = [conn EXCEPT
             ![c].pc = "respond",
             ![c].loc = IF ok \/ conn[c].req.Type = "rollback" THEN WithCode(l, "OK")
                        ELSE WithError(l, "flush failed")]
    /\ UNCHANGED serverVarsButConn
    /\ UNCHANGED hostsVars

\* the end of handleRequest (the audit entry) and writeResponse
Respond(c) ==
    /\ conn[c].pc = "respond"
    /\ auditLog' = IF conn[c].req.Type \in Audited
                   THEN Log(auditLog, AuditEntry(c, conn[c].creds, conn[c].req.Type,
                                                 conn[c].loc.code = "OK"))
                   ELSE auditLog
    /\ conn' = [conn EXCEPT ![c].sent = Append(@, conn[c].loc.code), ![c].pc = "idle",
                            ![c].req = NoRequest, ![c].loc = NoLocals,
                            ![c].log = Append(@, WriteEvent(clock, conn[c].loc.code))]
    /\ UNCHANGED <<cfg, cfgFile, requestCount, buckets, committed, watcher, listener, client>>
    /\ UNCHANGED hostsVars

\* the server with the connections Cs, whose peers are from Peers and send
\* lines from Lines; I/O calls have the outcomes in Outcomes
NextServer(Cs, Peers, Lines, Outcomes) ==
    \/ \E c \in Cs, creds \in Peers : Accept(c, creds)
    \/ \E c \in Cs, line \in Lines : PeerSend(c, line)
    \/ \E c \in Cs : Authorize(c)
    \/ \E c \in Cs : ReadRequest(c)
    \/ \E c \in Cs : Hangup(c)
    \/ \E c \in Cs : Begin(c)
    \/ \E c \in Cs : Mutate(c)
    \/ \E c \in Cs : Marshal(c)
    \/ \E c \in Cs, ok \in Outcomes : WriteConfig(c, ok)
    \/ \E c \in Cs : Snapshot(c)
    \/ \E c \in Cs, ok \in Outcomes : Backup(c, ok)
    \/ \E c \in Cs : ReadHosts(c)
    \/ \E c \in Cs, ok \in Outcomes : WriteTmp(c, ok)
    \/ \E c \in Cs, ok \in Outcomes : Rename(c, ok)
    \/ \E c \in Cs, ok \in Outcomes : Flush(c, ok)
    \/ \E c \in Cs : Respond(c)

-----------------------------------------------------------------------------
(* The server's initial state: a configuration loaded and reconciled *)

Host(domain, ip, alias, enabled) ==
    [Domain |-> domain, IP |-> ip, Alias |-> alias, Enabled |-> enabled]

InitialConfig ==
    [Settings |-> [AutoApply |-> TRUE],
     Groups |-> << [Name |-> "dev",
                    Hosts |-> << Host(<<"a", ".", "test">>, <<"10.0.0.1">>, <<"a">>, FALSE),
                                 Host(<<"b", ".", "test">>, <<"10.0.0.2">>, <<"b">>, TRUE) >>] >>,
     Presets |-> << [Name |-> "swap", Enable |-> << <<"a">> >>, Disable |-> << <<"b">> >>] >>]

\* no event is pending; edits, loads and calls are history: the number of
\* out-of-band writes and of Loads, and the arguments of the onChange calls
NoWatcher == [pending |-> FALSE, edits |-> 0, loads |-> 0, calls |-> <<>>]

\* Start has returned: the listener is open, stopCh is open, acceptLoop is
\* at listener.Accept and nobody has called Stop
Listening == [stopCh |-> "open", open |-> TRUE, loop |-> "accept", stop |-> "none"]

\* a Client that nobody uses: mu is the set of callers that hold the mutex,
\* read the number of responses taken from the socket; per caller, where its
\* call of send is. History: broken (a call has failed after its write), and
\* per caller which line its last call wrote and which response it returned.
Callers == {1, 2}
NoClient ==
    [mu |-> {}, read |-> 0, broken |-> FALSE,
     calls |-> [k \in Callers |-> [pc |-> "idle", wrote |-> 0, got |-> 0]]]

\* the daemon has loaded configuration c and reconciled the host file with it
InitServerWith(loggers, c) ==
    /\ hostFile = NewHostsContent(<<"127.0.0.1", TAB, "localhost", NL>>, HostEntries(c))
    /\ tmpFile = NoFile
    /\ backups = <<>>
    /\ clock = 0
    /\ ret = [op |-> "none", name |-> <<>>, err |-> ""]
    /\ cfg = c
    /\ cfgFile = c
    /\ conn = [d \in Conns |-> NoConn]
    /\ auditLog \in {[logger |-> b, entries |-> <<>>] : b \in loggers}
    /\ requestCount = 0
    /\ buckets = <<>>
    /\ committed = {c}
    /\ watcher = NoWatcher
    /\ listener = Listening
    /\ client = NoClient

InitServer(loggers) == InitServerWith(loggers, InitialConfig)

-----------------------------------------------------------------------------
(* The configuration watcher (Manager.Load, Manager.watchLoop) and the
   daemon's observer *)

\* a configuration file that cannot be read, and one that is no YAML
Unreadable == [Exists |-> FALSE]
Unparsable == [Yaml |-> FALSE]

\* a Load that does not validate
LoadUnvalidated(file) ==
    IF file = Unreadable THEN [err |-> "failed to read config file", config |-> <<>>]
    ELSE IF file = Unparsable THEN [err |-> "failed to parse config file", config |-> <<>>]
    ELSE [err |-> "", config |-> <<file>>]

\* Manager.Load: the error, or the configuration that replaces m.config
Load(file) ==
    IF file = Unreadable THEN [err |-> "failed to read config file", config |-> <<>>]
    ELSE IF file = Unparsable THEN [err |-> "failed to parse config file", config |-> <<>>]
    ELSE IF ~ValidateConfig(file) THEN [err |-> "invalid config", config |-> <<>>]
    ELSE [err |-> "", config |-> <<file>>]

\* Daemon.onConfigChange: it prints a line; the branch for AutoApply is empty
onConfigChange(c) ==
    IF c.Settings.AutoApply THEN UNCHANGED hostsVars ELSE UNCHANGED hostsVars

\* watchLoop, the case of a Write or Create event
watchLoop ==
    /\ watcher.pending
    /\ LET res == Load(cfgFile)
       IN  IF res.err = ""
           THEN /\ cfg' = res.config[1]
                /\ committed' = committed \cup {cfg'}
                /\ watcher' = [watcher EXCEPT !.pending = FALSE, !.loads = @ + 1,
                                              !.calls = Append(@, cfg')]
                /\ onConfigChange(cfg')
           ELSE /\ watcher' = [watcher EXCEPT !.pending = FALSE, !.loads = @ + 1]
                /\ UNCHANGED <<cfg, committed>>
                /\ UNCHANGED hostsVars
    /\ UNCHANGED <<cfgFile, conn, auditLog, requestCount, buckets, listener, client>>

\* the number of times somebody else replaces the configuration file
MaxEdits == 2

\* somebody else replaces the configuration file
ExternalWrite(file) ==
    /\ watcher.edits < MaxEdits
    /\ cfgFile' = file
    /\ watcher' = [watcher EXCEPT !.pending = TRUE, !.edits = @ + 1]
    /\ UNCHANGED <<cfg, conn, auditLog, requestCount, buckets, committed, listener, client>>
    /\ UNCHANGED hostsVars

-----------------------------------------------------------------------------
(* Peers of every kind, which send a few kinds of line *)

AllPeers ==
    { NilCreds, Creds(0, 0, 101), Creds(1000, 1000, 102), Creds(1001, 1001, 103),
      Creds(1002, 1002, 104), Creds(1002, LolcathostGID, 105), Creds(1003, 1003, 106),
      Creds(1004, 1004, 107) }

AuthLines ==
    { BadLine, Line(Request("ping", <<>>)),
      Line(Request("delete", [Alias |-> <<"b">>])) }

InitAuth == InitServer(BOOLEAN)

NextAuth == NextServer(Conns, AllPeers, AuthLines, BOOLEAN)

SpecAuth == InitAuth /\ [][NextAuth]_vars

-----------------------------------------------------------------------------
(* One client that sends requests of every type, one after the other *)

NewHost == [Domain |-> <<"c", ".", "test">>, IP |-> <<"10.0.0.3">>, Group |-> "dev",
            Enabled |-> TRUE]

AllLines ==
    { BadLine,
      Line(Request("ping", <<>>)),
      Line(Request("status", <<>>)),
      Line(Request("backups", <<>>)),
      Line(Request("frobnicate", <<>>)),
      Line(Request("list", <<>>)),
      Line(Request("list_groups", <<>>)),
      Line(Request("list_presets", <<>>)),
      Line(Request("sync", <<>>)),
      Line(Request("rollback", [BackupName |-> BackupName(0)])),
      Line(Request("rollback", [BackupName |-> <<"..", "/">> \o BackupName(0)])),
      Line([NoRequest EXCEPT !.Type = "set"]),
      Line(Request("set", [Alias |-> <<"a">>, Enabled |-> TRUE])),
      Line(Request("set", [Alias |-> <<"zz">>, Enabled |-> TRUE])),
      Line(Request("add", [Alias |-> <<"x">>] @@ NewHost)),
      Line(Request("add", [Alias |-> <<"a">>] @@ NewHost)),
      Line(Request("add", NewHost)),
      Line(Request("add", [Alias |-> <<"x", NL, "y">>] @@ NewHost)),
      Line(Request("add", [Domain |-> <<"www", ".", "APPLE", ".", "com">>] @@ NewHost)),
      Line(Request("add", [Domain |-> <<"apple", ".", "com">>] @@ NewHost)),
      Line(Request("add", [Domain |-> <<"pine", "apple", ".", "com">>] @@ NewHost)),
      Line(Request("add", [Domain |-> <<"c", ".", "test", SP, "apple", ".", "com">>] @@ NewHost)),
      Line(Request("add", [Domain |-> <<>>] @@ NewHost)),
      Line(Request("add", [IP |-> <<>>] @@ NewHost)),
      Line(Request("add", [IP |-> <<"999.0.0.1">>, Alias |-> <<"x">>] @@ NewHost)),
      Line(Request("delete", [Alias |-> <<"b">>])),
      Line(Request("preset", [Name |-> "swap"])),
      Line(Request("preset", [Name |-> "none"])),
      Line(Request("add_group", [Name |-> "qa"])),
      Line(Request("add_group", [Name |-> "dev"])),
      Line(Request("delete_group", [Name |-> "dev"])),
      Line(Request("rename_group", [Name |-> "dev", NewName |-> "qa"])),
      Line(Request("add_preset", [Name |-> "p2", Enable |-> << <<"b">> >>])),
      Line(Request("delete_preset", [Name |-> "swap"])) }

Root(pid) == Creds(0, 0, pid)

Init == InitServer({TRUE})

Next == NextServer({1}, {Root(101)}, AllLines, BOOLEAN)

Spec == Init /\ [][Next]_vars

-----------------------------------------------------------------------------
(* Two clients whose requests the server handles concurrently *)

RaceLines ==
    { Line(Request("add", [Alias |-> <<"x">>] @@ NewHost)),
      Line(Request("preset", [Name |-> "swap"])),
      Line(Request("add_group", [Name |-> "qa"])),
      Line(Request("list", <<>>)) }

InitRace == InitServer({TRUE})

NextRace == NextServer(Conns, {Root(101), Root(102)}, RaceLines, {TRUE})

SpecRace == InitRace /\ [][NextRace]_vars

-----------------------------------------------------------------------------
(* Two peers that send more requests than the limiter admits, while time passes *)

\* time.Now() moves on
Tick(max) ==
    /\ clock < max
    /\ clock' = clock + 1
    /\ UNCHANGED <<hostFile, tmpFile, backups, ret>>
    /\ UNCHANGED serverVars

RateLines == {BadLine, Line(Request("ping", <<>>))}

InitRate == InitServer({TRUE})

NextRate ==
    \/ \E c \in Conns, creds \in {Root(101), Root(102)} : Accept(c, creds)
    \/ \E c \in Conns, line \in RateLines : PeerSendUpTo(c, line, Limit + 2)
    \/ \E c \in Conns : Authorize(c)
    \/ \E c \in Conns : ReadRequest(c)
    \/ \E c \in Conns : Begin(c)
    \/ \E c \in Conns : Respond(c)
    \/ \E c \in Conns : Hangup(c)
    \/ Tick(Window + 1)

SpecRate == InitRate /\ [][NextRate]_vars

\* cleanupLoop: the ticker fires and Cleanup runs under the limiter's mutex
Cleanup ==
    /\ buckets' = Cleaned(buckets, clock)
    /\ buckets' # buckets
    /\ UNCHANGED <<cfg, cfgFile, conn, auditLog, requestCount, committed, watcher,
                   listener, client>>
    /\ UNCHANGED hostsVars

\* the same peers, which only ping, while the cleanup runs at any time
NextClean ==
    \/ \E c \in Conns, creds \in {Root(101), Root(102)} : Accept(c, creds)
    \/ \E c \in Conns : PeerSendUpTo(c, Line(Request("ping", <<>>)), Limit + 1)
    \/ \E c \in Conns : Authorize(c)
    \/ \E c \in Conns : ReadRequest(c)
    \/ \E c \in Conns : Begin(c)
    \/ \E c \in Conns : Respond(c)
    \/ \E c \in Conns : Hangup(c)
    \/ Tick(Window + 1)
    \/ Cleanup

SpecClean == InitRate /\ [][NextClean]_vars

\* Two connections of one process, which ask for the status more often than
\* the limiter admits
CountLines == {BadLine, Line(Request("status", <<>>))}

NextCount ==
    \/ \E c \in Conns : Accept(c, Root(101))
    \/ \E c \in Conns, line \in CountLines : PeerSendUpTo(c, line, Limit + 2)
    \/ \E c \in Conns : Authorize(c)
    \/ \E c \in Conns : ReadRequest(c)
    \/ \E c \in Conns : Begin(c)
    \/ \E c \in Conns : Respond(c)
    \/ \E c \in Conns : Hangup(c)
    \/ Tick(Window)

SpecCount == InitRate /\ [][NextCount]_vars

-----------------------------------------------------------------------------
(* One client that switches entries on and off, one by one and by preset, and
   that adds, deletes and renames groups; two of the entries map the same
   domain *)

ToggleConfig ==
    [Settings |-> [AutoApply |-> TRUE],
     Groups |-> << [Name |-> "dev",
                    Hosts |-> << Host(<<"a", ".", "test">>, <<"10.0.0.1">>, <<"a">>, FALSE),
                                 Host(<<"a", ".", "test">>, <<"10.0.0.2">>, <<"b">>, TRUE) >>],
                   [Name |-> "ops",
                    Hosts |-> << Host(<<"c", ".", "test">>, <<"10.0.0.3">>, <<"c">>, TRUE) >>] >>,
     Presets |-> << [Name |-> "on", Enable |-> << <<"a">>, <<"zz">> >>,
                     Disable |-> << <<"yy">>, <<"b">> >>],
                    [Name |-> "mix", Enable |-> << <<"a">>, <<"c">> >>,
                     Disable |-> << <<"c">>, <<"zz">> >>] >>]

ToggleLines ==
    { Line(Request("set", [Alias |-> <<"a">>, Enabled |-> TRUE])),
      Line(Request("set", [Alias |-> <<"a">>, Enabled |-> TRUE, Force |-> TRUE])),
      Line(Request("set", [Alias |-> <<"b">>, Enabled |-> TRUE])),
      Line(Request("set", [Alias |-> <<"b">>, Enabled |-> FALSE])),
      Line(Request("set", [Alias |-> <<"c">>, Enabled |-> TRUE])),
      Line(Request("set", [Alias |-> <<"zz">>, Enabled |-> TRUE, Force |-> TRUE])),
      Line(Request("preset", [Name |-> "on"])),
      Line(Request("preset", [Name |-> "mix"])),
      Line(Request("preset", [Name |-> "none"])),
      Line(Request("add_group", [Name |-> "dev"])),
      Line(Request("add_group", [Name |-> "qa"])),
      Line(Request("delete_group", [Name |-> "zz"])),
      Line(Request("delete_group", [Name |-> "ops"])),
      Line(Request("rename_group", [Name |-> "zz", NewName |-> "qa"])),
      Line(Request("rename_group", [Name |-> "ops", NewName |-> "dev"])),
      Line(Request("rename_group", [Name |-> "dev", NewName |-> "qa"])) }

InitToggle == InitServerWith({TRUE}, ToggleConfig)

NextToggle == NextServer({1}, {Root(101)}, ToggleLines, BOOLEAN)

SpecToggle == InitToggle /\ [][NextToggle]_vars

-----------------------------------------------------------------------------
(* Peers with and without access to the service, one at a time, which send
   requests of every recorded type and some that only read; the server may
   have failed to open its audit log *)

AuditPeers == {NilCreds, Root(101), Creds(1002, LolcathostGID, 105), Creds(1003, 1003, 106)}

AuditLines ==
    { BadLine,
      Line(Request("ping", <<>>)),
      Line(Request("list", <<>>)),
      Line(Request("backups", <<>>)),
      Line(Request("frobnicate", <<>>)),
      Line([NoRequest EXCEPT !.Type = "set"]),
      Line(Request("set", [Alias |-> <<"a">>, Enabled |-> TRUE])),
      Line(Request("sync", <<>>)),
      Line(Request("preset", [Name |-> "swap"])),
      Line(Request("rollback", [BackupName |-> BackupName(0)])),
      Line(Request("add", [Alias |-> <<"x">>] @@ NewHost)),
      Line(Request("delete", [Alias |-> <<"b">>])),
      Line(Request("add_group", [Name |-> "dev"])),
      Line(Request("delete_group", [Name |-> "dev"])),
      Line(Request("rename_group", [Name |-> "dev", NewName |-> "qa"])),
      Line(Request("add_preset", [Name |-> "p2", Enable |-> << <<"b">> >>])),
      Line(Request("delete_preset", [Name |-> "none"])) }

InitAudit == InitServer(BOOLEAN)

NextAudit == NextServer({1}, AuditPeers, AuditLines, BOOLEAN)

SpecAudit == InitAudit /\ [][NextAudit]_vars

-----------------------------------------------------------------------------
(* The configuration file is replaced out-of-band and time passes, while one
   client may ask for a sync or a list *)

\* the initial configuration with alias a enabled
EditedConfig(autoApply) ==
    [InitialConfig EXCEPT !.Settings.AutoApply = autoApply,
                          !.Groups[1].Hosts[1].Enabled = TRUE]

WatchFiles ==
    { EditedConfig(TRUE), EditedConfig(FALSE), InitialConfig,
      [InitialConfig EXCEPT !.Groups[1].Hosts[1].IP = <<"999.0.0.1">>],
      Unparsable, Unreadable }

WatchLines == {Line(Request("sync", <<>>)), Line(Request("list", <<>>))}

InitWatch == InitServer({TRUE})

\* the steps of the daemon's goroutines
DaemonWatch ==
    \/ watchLoop
    \/ \E c \in {1} : Authorize(c)
    \/ \E c \in {1} : ReadRequest(c)
    \/ \E c \in {1} : Begin(c)
    \/ \E c \in {1} : Snapshot(c)
    \/ \E c \in {1}, ok \in BOOLEAN : Backup(c, ok)
    \/ \E c \in {1} : ReadHosts(c)
    \/ \E c \in {1}, ok \in BOOLEAN : WriteTmp(c, ok)
    \/ \E c \in {1}, ok \in BOOLEAN : Rename(c, ok)
    \/ \E c \in {1}, ok \in BOOLEAN : Flush(c, ok)
    \/ \E c \in {1} : Respond(c)

NextWatch ==
    \/ DaemonWatch
    \/ \E file \in WatchFiles : ExternalWrite(file)
    \/ \E c \in {1} : Accept(c, Root(101))
    \/ \E c \in {1}, line \in WatchLines : PeerSend(c, line)
    \/ \E c \in {1} : Hangup(c)
    \/ Tick(MaxTick)

\* the goroutines of the daemon are scheduled; peers and editors need not act
SpecWatch == InitWatch /\ [][NextWatch]_vars /\ WF_vars(DaemonWatch)

\* the same within one second, with a client that only asks for a sync
NextReload ==
    \/ DaemonWatch
    \/ \E file \in WatchFiles : ExternalWrite(file)
    \/ \E c \in {1} : Accept(c, Root(101))
    \/ \E c \in {1} : PeerSend(c, Line(Request("sync", <<>>)))
    \/ \E c \in {1} : Hangup(c)

SpecReload == InitWatch /\ [][NextReload]_vars

-----------------------------------------------------------------------------
(* Requests that enable entries, none of them with force *)

ShareLines ==
    { Line(Request("set", [Alias |-> <<"a">>, Enabled |-> TRUE])),
      Line(Request("set", [Alias |-> <<"b">>, Enabled |-> TRUE])),
      Line(Request("set", [Alias |-> <<"b">>, Enabled |-> FALSE])),
      Line(Request("preset", [Name |-> "on"])),
      Line(Request("preset", [Name |-> "mix"])),
      Line(Request("add", [Domain |-> <<"c", ".", "test">>, IP |-> <<"10.0.0.9">>,
                           Alias |-> <<"x">>, Group |-> "dev", Enabled |-> TRUE])) }

NextShare == NextServer({1}, {Root(101)}, ShareLines, {TRUE})

SpecShare == InitToggle /\ [][NextShare]_vars

-----------------------------------------------------------------------------
(* The watcher sees the daemon's own Save *)

\* Save: os.WriteFile(m.path, data) on the path that the watcher watches, so
\* that a successful write puts a Write event into watcher.Events
WriteConfigWatched(c, ok) ==
    /\ conn[c].pc = "write"
    /\ LET l == conn[c].loc
       IN  IF ok
           THEN /\ cfgFile' = l.data[1]
                /\ watcher' = [watcher EXCEPT !.pending = TRUE]
                /\ conn' = [conn EXCEPT
                     ![c].loc = [l EXCEPT !.stages = Append(@, "persist"), !.code = "OK"],
                     ![c].pc = IF SyncsAfterSave(conn[c].req.Type) THEN "snapshot"
                               ELSE "respond"]
           ELSE /\ UNCHANGED <<cfgFile, watcher>>
                /\ conn' = [conn EXCEPT ![c].pc = "respond",
                                        ![c].loc = WithError(l, "failed to save config")]
    /\ UNCHANGED <<cfg, auditLog, requestCount, buckets, committed, listener, client>>
    /\ UNCHANGED hostsVars

SelfLines ==
    { Line(Request("set", [Alias |-> <<"a">>, Enabled |-> TRUE])),
      Line(Request("add_group", [Name |-> "qa"])) }

\* one client, whose requests the daemon saves while its watcher runs; nobody
\* else writes the configuration file
NextSelf ==
    \/ watchLoop
    \/ \E c \in {1} : Accept(c, Root(101))
    \/ \E c \in {1}, line \in SelfLines : PeerSendUpTo(c, line, 2)
    \/ \E c \in {1} : Authorize(c)
    \/ \E c \in {1} : ReadRequest(c)
    \/ \E c \in {1} : Begin(c)
    \/ \E c \in {1} : Mutate(c)
    \/ \E c \in {1} : Marshal(c)
    \/ \E c \in {1}, ok \in BOOLEAN : WriteConfigWatched(c, ok)
    \/ \E c \in {1} : Snapshot(c)
    \/ \E c \in {1}, ok \in BOOLEAN : Backup(c, ok)
    \/ \E c \in {1} : ReadHosts(c)
    \/ \E c \in {1}, ok \in BOOLEAN : WriteTmp(c, ok)
    \/ \E c \in {1}, ok \in BOOLEAN : Rename(c, ok)
    \/ \E c \in {1}, ok \in BOOLEAN : Flush(c, ok)
    \/ \E c \in {1} : Respond(c)
    \/ \E c \in {1} : Hangup(c)

SpecSelf == InitWatch /\ [][NextSelf]_vars

-----------------------------------------------------------------------------
(* The daemon starts on a document with or without groups, and the file is
   replaced afterwards *)

\* a document without groups, and one whose only group is empty
NoGroups == [Settings |-> [AutoApply |-> TRUE], Groups |-> <<>>, Presets |-> <<>>]
OneGroup == [NoGroups EXCEPT !.Groups = <<[Name |-> "ops", Hosts |-> <<>>]>>]

\* Config.EnsureDefaultGroup
EnsureDefaultGroup(c) ==
    IF Len(c.Groups) = 0
    THEN [c EXCEPT !.Groups = Append(@, [Name |-> "default", Hosts |-> <<>>])]
    ELSE c

\* daemon.New: the error, or the configuration the manager holds afterwards.
\* os.IsNotExist does not see through the error that Load wraps, so a missing
\* file is a failed start like any other.
New(file) ==
    LET res == Load(file)
    IN  IF res.err # "" THEN [err |-> "failed to load config", config |-> <<>>]
        ELSE [err |-> "", config |-> <<EnsureDefaultGroup(res.config[1])>>]

StartFiles == {NoGroups, OneGroup, InitialConfig, Unparsable, Unreadable}

\* New has returned a daemon, and its Save of the default group succeeded
InitStart ==
    \E file \in StartFiles :
        /\ New(file).err = ""
        /\ InitServerWith({TRUE}, New(file).config[1])

NextStart ==
    \/ DaemonWatch
    \/ \E file \in StartFiles : ExternalWrite(file)
    \/ \E c \in {1} : Accept(c, Root(101))
    \/ \E c \in {1} : PeerSend(c, Line(Request("sync", <<>>)))
    \/ \E c \in {1} : Hangup(c)

SpecStart == InitStart /\ [][NextStart]_vars

-----------------------------------------------------------------------------
(* The accept loop and Server.Stop *)

serverVarsButListener ==
    <<cfg, cfgFile, conn, requestCount, buckets, committed, watcher, client>>

\* Stop, up to and including close(s.stopCh)
StopSignal ==
    /\ listener.stop = "none"
    /\ listener' = [listener EXCEPT !.stopCh = "closed", !.stop = "signalled"]
    /\ UNCHANGED <<auditLog, serverVarsButListener>>
    /\ UNCHANGED hostsVars

\* the rest of Stop: listener.Close, os.Remove and auditLogger.Close, after
\* which the encoder's writes fail and Log drops every entry, as it does when
\* there is no logger
StopClose ==
    /\ listener.stop = "signalled"
    /\ listener' = [listener EXCEPT !.open = FALSE, !.stop = "done"]
    /\ auditLog' = [auditLog EXCEPT !.logger = FALSE]
    /\ UNCHANGED serverVarsButListener
    /\ UNCHANGED hostsVars

\* acceptLoop: listener.Accept returns a connection
AcceptOpen(c, creds) ==
    /\ listener.loop = "accept" /\ listener.open
    /\ Accept(c, creds)

\* acceptLoop: listener.Accept of the open listener returns an error
AcceptError ==
    /\ listener.loop = "accept" /\ listener.open
    /\ listener' = [listener EXCEPT !.loop = "failed"]
    /\ UNCHANGED <<auditLog, serverVarsButListener>>
    /\ UNCHANGED hostsVars

\* acceptLoop: listener.Accept of the closed listener returns an error
AcceptClosed ==
    /\ listener.loop = "accept" /\ ~listener.open
    /\ listener' = [listener EXCEPT !.loop = "failed"]
    /\ UNCHANGED <<auditLog, serverVarsButListener>>
    /\ UNCHANGED hostsVars

\* an acceptLoop that returns at the first error
AcceptSelectReturn ==
    /\ listener.loop = "failed"
    /\ listener' = [listener EXCEPT !.loop = "exited"]
    /\ UNCHANGED <<auditLog, serverVarsButListener>>
    /\ UNCHANGED hostsVars

\* acceptLoop: the select after an error
AcceptSelect ==
    /\ listener.loop = "failed"
    /\ listener' = [listener EXCEPT
                       !.loop = IF listener.stopCh = "closed" THEN "exited" ELSE "accept"]
    /\ UNCHANGED <<auditLog, serverVarsButListener>>
    /\ UNCHANGED hostsVars

StopLines == {BadLine, Line(Request("ping", <<>>)), Line(Request("add_group", [Name |-> "qa"]))}

InitStop == InitServer({TRUE})

\* the steps of acceptLoop that need nothing from outside
LoopStop == AcceptClosed \/ AcceptSelect

NextStop ==
    \/ LoopStop
    \/ AcceptError
    \/ \E c \in Conns : AcceptOpen(c, Root(101))
    \/ StopSignal
    \/ StopClose
    \/ \E c \in Conns, line \in StopLines : PeerSend(c, line)
    \/ \E c \in Conns : Authorize(c)
    \/ \E c \in Conns : ReadRequest(c)
    \/ \E c \in Conns : Begin(c)
    \/ \E c \in Conns : Mutate(c)
    \/ \E c \in Conns : Marshal(c)
    \/ \E c \in Conns : WriteConfig(c, TRUE)
    \/ \E c \in Conns : Respond(c)
    \/ \E c \in Conns : Hangup(c)

SpecStop == InitStop /\ [][NextStop]_vars /\ WF_vars(LoopStop)

-----------------------------------------------------------------------------
(* Callers that share one client.Client, which is connected as connection 1
   (client.go) *)

serverVarsButConnClient ==
    <<cfg, cfgFile, auditLog, requestCount, buckets, committed, watcher, listener>>

\* a send that does not take the mutex
LockNoMutex(k) ==
    /\ client.calls[k].pc \in {"idle", "done", "failed"}
    /\ conn[1].st \in {"accepted", "reading"}
    /\ SumLines(conn) + Cardinality(client.mu) < MaxRequests
    /\ client' = [client EXCEPT !.mu = @ \cup {k},
                                !.calls[k] = [pc |-> "locked", wrote |-> 0, got |-> 0]]
    /\ UNCHANGED <<conn, serverVarsButConnClient>>
    /\ UNCHANGED hostsVars

\* send: c.mu.Lock() of a caller that goes on to write (c.conn # nil)
Lock(k) ==
    /\ client.calls[k].pc \in {"idle", "done", "failed"}
    /\ client.mu = {}
    /\ conn[1].st \in {"accepted", "reading"}
    /\ SumLines(conn) + Cardinality(client.mu) < MaxRequests
    /\ client' = [client EXCEPT !.mu = @ \cup {k},
                                !.calls[k] = [pc |-> "locked", wrote |-> 0, got |-> 0]]
    /\ UNCHANGED <<conn, serverVarsButConnClient>>
    /\ UNCHANGED hostsVars

\* send: c.conn.Write(data)
ClientWrite(k, line) ==
    /\ client.calls[k].pc = "locked"
    /\ conn' = [conn EXCEPT ![1].inbox = Append(@, line), ![1].lines = @ + 1]
    /\ client' = [client EXCEPT !.calls[k].pc = "written",
                                !.calls[k].wrote = conn[1].lines + 1]
    /\ UNCHANGED serverVarsButConnClient
    /\ UNCHANGED hostsVars

\* send: c.reader.ReadBytes returns a line, which send returns; the mutex is
\* released
ClientRead(k) ==
    /\ client.calls[k].pc = "written"
    /\ Len(conn[1].sent) > client.read
    /\ client' = [client EXCEPT !.mu = @ \ {k}, !.read = @ + 1,
                                !.calls[k].pc = "done", !.calls[k].got = client.read + 1]
    /\ UNCHANGED <<conn, serverVarsButConnClient>>
    /\ UNCHANGED hostsVars

\* send: the deadline passes before the response is there; ReadBytes returns
\* an error, which send returns; the mutex is released
ClientTimeout(k) ==
    /\ client.calls[k].pc = "written"
    /\ Len(conn[1].sent) = client.read
    /\ client' = [client EXCEPT !.mu = @ \ {k}, !.broken = TRUE,
                                !.calls[k].pc = "failed"]
    /\ UNCHANGED <<conn, serverVarsButConnClient>>
    /\ UNCHANGED hostsVars

ClientLines ==
    { Line(Request("ping", <<>>)), Line(Request("frobnicate", <<>>)),
      Line(Request("add_group", [Name |-> "qa"])) }

InitClient == InitServer({TRUE})

NextClient ==
    \/ Accept(1, Root(101))
    \/ \E k \in Callers : Lock(k)
    \/ \E k \in Callers, line \in ClientLines : ClientWrite(k, line)
    \/ \E k \in Callers : ClientRead(k)
    \/ \E k \in Callers : ClientTimeout(k)
    \/ Authorize(1)
    \/ ReadRequest(1)
    \/ Begin(1)
    \/ Mutate(1)
    \/ Marshal(1)
    \/ \E ok \in BOOLEAN : WriteConfig(1, ok)
    \/ Respond(1)

SpecClient == InitClient /\ [][NextClient]_vars

-----------------------------------------------------------------------------
(* Claims about authorization *)

EntriesOf(c) == SelectSeq(auditLog.entries, LAMBDA e : e.conn = c)

\* C1: a connection that failed authorization is closed, was sent exactly
\* one response, UNAUTHORIZED, none of its lines was routed to a handler or
\* counted, and the audit log holds for it the single failed "connect" entry
\* (if the server has an audit logger) and nothing else.
C1_Unauthorized ==
    /\ requestCount = conn[1].counted + conn[2].counted
    /\ \A c \in Conns :
          conn[c].authorized = "no" =>
              /\ conn[c].st = "closed"
              /\ conn[c].sent = <<"UNAUTHORIZED">>
              /\ conn[c].handled = 0 /\ conn[c].counted = 0 /\ conn[c].pc = "idle"
              /\ EntriesOf(c) = IF auditLog.logger
                                THEN <<AuditEntry(c, conn[c].creds, "connect", FALSE)>>
                                ELSE <<>>

\* a rejected peer had sent a line, which stays unread, while the other
\* connection's request was handled and logged
C1_Witness ==
    \E c, d \in Conns :
        /\ conn[c].authorized = "no" /\ conn[c].inbox # <<>>
        /\ auditLog.logger /\ Len(auditLog.entries) = 2
        /\ conn[d].handled = 1

\* the rule of the specification: uid 0, or primary gid 850, or 850 among the
\* groups of the peer's user
Rule(creds) ==
    /\ ~creds.nil
    /\ \/ creds.UID = 0
       \/ creds.GID = 850
       \/ /\ UserDb[creds.UID].err = ""
          /\ \E i \in 1..Len(UserDb[creds.UID].groupIDs) :
                 UserDb[creds.UID].groupIDs[i] = <<"8", "5", "0">>

\* C2: a connection is authorized if and only if its peer's uid is 0, or its
\* primary gid is 850, or 850 is among the groups of the peer's user; a
\* connection without peer credentials is never authorized.
C2_Authorization ==
    \A c \in Conns :
        /\ conn[c].authorized = "yes" => Rule(conn[c].creds)
        /\ conn[c].authorized = "no" => ~Rule(conn[c].creds)
        /\ conn[c].st \in {"reading", "closed"} => conn[c].authorized # "unknown"

\* one peer got in through its primary group alone, another through a
\* supplementary group alone, and a peer without credentials was rejected
C2_Witness ==
    \E c, d \in Conns :
        /\ conn[c].authorized = "yes" /\ conn[c].creds = Creds(1002, LolcathostGID, 105)
        /\ \/ conn[d].authorized = "yes" /\ conn[d].creds = Creds(1000, 1000, 102)
           \/ conn[d].authorized = "no" /\ conn[d].creds = NilCreds

-----------------------------------------------------------------------------
(* Claims about the handlers *)

\* the line of the managed region for a host
HostLine(h) == h.IP \o <<TAB>> \o h.Domain \o <<TAB, "#", SP, "lolcathost:">> \o h.Alias

\* content has exactly one start marker line and one end marker line after
\* it, and between them one line per enabled host of c, in order
OneRegion(content, c) ==
    LET lines == Split(content)
        starts == {i \in 1..Len(lines) : lines[i] = markerStart}
        ends == {i \in 1..Len(lines) : lines[i] = markerEnd}
        enabled == SelectSeq(GetAllHosts(c.Groups), LAMBDA h : h.Enabled)
    IN  /\ Cardinality(starts) = 1 /\ Cardinality(ends) = 1
        /\ \A i \in starts, j \in ends :
              /\ i < j
              /\ SubSeq(lines, i + 1, j - 1) = [k \in 1..Len(enabled) |-> HostLine(enabled[k])]

\* C4: when a reconcile has renamed its file into place (for a client whose
\* requests are handled one after the other), the host file holds exactly one
\* managed region, and its interior is one line per enabled host of the
\* configuration, in configuration order.
C4_OneRegion ==
    \A c \in Conns :
        (conn[c].pc = "flush" /\ conn[c].req.Type # "rollback") => OneRegion(hostFile, cfg)

\* C5: no two hosts of the configuration share an alias.
C5_UniqueAliases ==
    \A p, q \in HostPositions(cfg) : p # q => HostAt(cfg, p).Alias # HostAt(cfg, q).Alias

Quiet == \A c \in Conns : conn[c].pc = "idle" /\ conn[c].inbox = <<>>

AllOK == \A c \in Conns : \A i \in 1..Len(conn[c].sent) : conn[c].sent[i] = "OK"

\* C6: once every request has been answered, and answered OK, the persisted
\* configuration is the in-memory configuration: no mutation was lost.
C6_Linearizable == (Quiet /\ AllOK) => cfgFile = cfg

\* between its backup step and its rename
InReconcile(x) == x.pc \in {"read", "tmp", "rename"}

\* C7: no two reconciles overlap.
C7_NoOverlap == \A c, d \in Conns : (InReconcile(conn[c]) /\ InReconcile(conn[d])) => c = d

\* C8: what a list request observes is the configuration as it was before or
\* after a mutation, not in the middle of one.
C8_NoTornRead ==
    \A c \in Conns :
        conn[c].loc.observed # <<>> =>
            \E k \in committed : conn[c].loc.observed = <<View(conn[c].req.Type, k)>>

Answers(c, type, code) ==
    conn[c].pc = "respond" /\ conn[c].req.Type = type /\ conn[c].loc.code = code

-----------------------------------------------------------------------------
(* Claims about the connection loop *)

\* the requests of pid that were routed to a handler after the time since
Admissions(pid, since) ==
    {e \in UNION {{<<d, i>> : i \in 1..Len(conn[d].log)} : d \in Conns} :
        /\ ~conn[e[1]].creds.nil /\ conn[e[1]].creds.PID = pid
        /\ conn[e[1]].log[e[2]] \in {ReadEvent(t, "routed") : t \in (since + 1)..clock}}

\* connection c reads a well-formed request line in this step
ReadsRequest(c) ==
    /\ Len(conn'[c].log) > Len(conn[c].log)
    /\ conn'[c].log[Len(conn[c].log) + 1].ev = "read"
    /\ conn'[c].log[Len(conn[c].log) + 1].what # "bad"

\* C13: a request of a pid that has had Limit requests admitted within the
\* last Window is answered RATE_LIMITED and is not routed to a handler; a
\* request of a pid that has had fewer admitted within the last Window is
\* admitted.
C13_RateLimit ==
    [][\A c \in Conns :
          ReadsRequest(c) =>
              IF Cardinality(Admissions(conn[c].creds.PID, clock - Window)) >= Limit
              THEN /\ conn'[c].sent = Append(conn[c].sent, "RATE_LIMITED")
                   /\ conn'[c].handled = conn[c].handled
                   /\ conn'[c].pc = "idle"
                   /\ requestCount' = requestCount
              ELSE /\ conn'[c].handled = conn[c].handled + 1
                   /\ conn'[c].pc = "begin"
                   /\ conn'[c].sent = conn[c].sent]_vars

\* a connection has had Limit requests answered OK, the next one answered
\* RATE_LIMITED and, later, one more answered OK
C13_Witness ==
    \E c \in Conns :
        /\ Len(conn[c].sent) = Limit + 2
        /\ \A i \in 1..Limit : conn[c].sent[i] = "OK"
        /\ conn[c].sent[Limit + 1] = "RATE_LIMITED"
        /\ conn[c].sent[Limit + 2] = "OK"

\* C14: on a connection the reads of request lines and the writes of
\* responses alternate, starting with a read, so response i is written before
\* request i+1 is read; the responses sent are those writes, in order; every
\* line taken from the socket, malformed ones too, has got its one response by
\* the time the loop is back at the read.
C14_Ordering ==
    \A c \in Conns :
        conn[c].authorized # "no" =>
            LET log == conn[c].log
                taken == conn[c].lines - Len(conn[c].inbox)
            IN  /\ \A i \in 1..Len(log) :
                      log[i].ev = IF i % 2 = 1 THEN "read" ELSE "write"
                /\ \A i \in 1..Len(log) :
                      (log[i].ev = "read" /\ log[i].what = "bad")
                          => (i < Len(log) /\ log[i + 1].what = "INVALID_REQUEST")
                /\ Len(log) = IF conn[c].pc = "idle" THEN 2 * taken ELSE 2 * taken - 1
                /\ conn[c].sent = [k \in 1..(Len(log) \div 2) |-> log[2 * k].what]

\* a connection has had a malformed line and then a well-formed request
\* answered
C14_Witness ==
    /\ Len(conn[1].log) = 4
    /\ conn[1].log[1].what = "bad"
    /\ conn[1].log[3].what = "routed"
    /\ conn[1].sent = <<"INVALID_REQUEST", "OK">>

-----------------------------------------------------------------------------
(* Claims about failures *)

\* the handler of connection c has invoked the flusher, which it does once its
\* save (if it saves) and its write of the host file have succeeded
Flushed(c) ==
    /\ conn[c].pc = "respond"
    /\ conn[c].loc.stages # <<>>
    /\ conn[c].loc.stages[Len(conn[c].loc.stages)] = "flush"

\* C15: a set, add, delete, preset, delete_group, sync or rollback whose save
\* and host-file write succeeded returns OK, whether the flush fails or not.
C15_FlushNonFatal ==
    \A c \in Conns :
        (Flushed(c) /\ conn[c].req.Type \in {"set", "add", "delete", "preset", "delete_group",
                                              "sync", "rollback"})
            => conn[c].loc.code = "OK"

\* the handler of connection c is about to answer after its Save has failed:
\* it has marshalled the configuration and has persisted nothing
SaveFailed(c) ==
    /\ conn[c].pc = "respond"
    /\ conn[c].req.Type \in Mutating
    /\ conn[c].loc.data # <<>>
    /\ "persist" \notin {conn[c].loc.stages[i] : i \in 1..Len(conn[c].loc.stages)}

\* configuration k shows the mutation that request r asks for
Applied(k, r) ==
    LET p == FindHostByAlias(k, r.Alias)
        names == {k.Groups[i].Name : i \in 1..Len(k.Groups)}
        presets == {k.Presets[i].Name : i \in 1..Len(k.Presets)}
    IN  CASE r.Type = "set" -> p # NoHost /\ HostAt(k, p).Enabled = r.Enabled
          [] r.Type = "add" ->
                 \E q \in HostPositions(k) :
                     /\ HostAt(k, q).Domain = r.Domain /\ HostAt(k, q).IP = r.IP
                     /\ k.Groups[q[1]].Name = r.Group
                     /\ r.Alias # <<>> => HostAt(k, q).Alias = r.Alias
          [] r.Type = "delete" -> p = NoHost
          [] r.Type = "preset" ->
                 \A i \in 1..Len(k.Presets) :
                     k.Presets[i].Name = r.Name =>
                         /\ \A a \in 1..Len(k.Presets[i].Disable) :
                               LET q == FindHostByAlias(k, k.Presets[i].Disable[a])
                               IN  q # NoHost => ~HostAt(k, q).Enabled
                         /\ \A a \in 1..Len(k.Presets[i].Enable) :
                               LET q == FindHostByAlias(k, k.Presets[i].Enable[a])
                                   off == {k.Presets[i].Disable[b] :
                                              b \in 1..Len(k.Presets[i].Disable)}
                               IN  (q # NoHost /\ k.Presets[i].Enable[a] \notin off)
                                       => HostAt(k, q).Enabled
          [] r.Type = "add_group" -> r.Name \in names
          [] r.Type = "delete_group" -> r.Name \notin names
          [] r.Type = "rename_group" -> r.NewName \in names /\ r.Name \notin names
          [] r.Type = "add_preset" -> r.Name \in presets
          [] OTHER -> r.Name \notin presets

\* C16: when the Save of a handler that has mutated the configuration fails,
\* the handler answers INTERNAL_ERROR, has started neither the rebuild of the
\* host file nor the flush, and the in-memory configuration still shows the
\* mutation, which the configuration file does not.
C16_PersistFailure ==
    /\ [][\A c \in Conns :
             (conn[c].pc = "write" /\ conn'[c].pc # "write" /\ conn'[c].loc.stages = <<>>)
                 => SaveFailed(c)' /\ cfg' = cfg /\ hostFile' = hostFile /\ backups' = backups]_vars
    /\ [](\A c \in Conns :
             SaveFailed(c) =>
                 /\ conn[c].loc.code = "INTERNAL_ERROR"
                 /\ conn[c].loc.stages = <<>>
                 /\ conn[c].loc.data = <<cfg>>
                 /\ Applied(cfg, conn[c].req)
                 /\ tmpFile = NoFile)

\* the Save of add_group qa has failed: the group is in memory and not in the
\* file
C16_Witness ==
    /\ SaveFailed(1)
    /\ conn[1].req.Type = "add_group"
    /\ GroupIndex(cfg, "qa") # 0
    /\ GroupIndex(cfgFile, "qa") = 0

\* the handler of connection c is about to answer a mutation whose save has
\* succeeded and whose reconcile has failed
ReconcileFailed(c) ==
    /\ conn[c].pc = "respond"
    /\ conn[c].req.Type \in Mutating
    /\ conn[c].loc.stages # <<>> /\ conn[c].loc.stages[1] = "persist"
    /\ conn[c].loc.stages # <<"persist">>
    /\ conn[c].loc.code # "OK"

CallerErrors ==
    {"NOT_FOUND", "CONFLICT", "INVALID_REQUEST", "INVALID_DOMAIN", "INVALID_IP",
     "BLOCKED_DOMAIN"}

\* C18: a request that is answered NOT_FOUND, CONFLICT, INVALID_REQUEST,
\* INVALID_DOMAIN, INVALID_IP or BLOCKED_DOMAIN leaves the in-memory
\* configuration, the configuration file, the host file and the backups as
\* they were when the request was read; so does a line that is no JSON.
C18_NoStateChange ==
    /\ [](\A c \in Conns :
             (conn[c].pc = "respond" /\ conn[c].loc.code \in CallerErrors) =>
                 conn[c].loc.before = <<[hostFile |-> hostFile, backups |-> backups,
                                         cfg |-> cfg, cfgFile |-> cfgFile]>>)
    /\ [][\A c \in Conns :
             (/\ Len(conn'[c].sent) > Len(conn[c].sent)
              /\ conn'[c].sent[Len(conn'[c].sent)] \in CallerErrors)
                 => UNCHANGED <<cfg, cfgFile, hostFile, backups, tmpFile>>]_vars

\* the responses CONFLICT and NOT_FOUND are about to be or have been sent on a
\* connection on which an earlier request has changed the state
C18_Witness ==
    /\ conn[1].pc = "respond"
    /\ conn[1].loc.code = "CONFLICT"
    /\ conn[1].req.Type = "add_group"
    /\ conn[1].sent = <<"OK">>
    /\ cfg # InitialConfig

-----------------------------------------------------------------------------
(* Claims about validation *)

\* C19: every host of the configuration the service has persisted has a
\* valid domain, a valid IP address and a valid alias, and the persisted
\* configuration passes the validation that is applied at load.
C19_AlwaysValid ==
    /\ \A p \in HostPositions(cfgFile) :
          /\ ValidateDomain(HostAt(cfgFile, p).Domain)
          /\ ValidateIP(HostAt(cfgFile, p).IP)
          /\ ValidateAlias(HostAt(cfgFile, p).Alias)
    /\ ValidateConfig(cfgFile)


\* the domain, in lower case, is an entry of the blocklist or ends with a dot
\* followed by an entry of the blocklist
Blocklisted(domain) ==
    LET d == ToLower(domain)
    IN  \E b \in blockedDomains : \E n \in 0..Len(d) :
            /\ SubSeq(d, n + 1, Len(d)) = b
            /\ n = 0 \/ d[n] = "."

\* the fields of a line of the host file: the runs of characters between
\* blanks and tabs, up to the comment
RECURSIVE FieldsAcc(_, _, _)
FieldsAcc(s, cur, acc) ==
    LET done == IF cur = <<>> THEN acc ELSE Append(acc, cur)
    IN  IF s = <<>> \/ Head(s) = "#" THEN done
        ELSE IF Head(s) \in {SP, TAB} THEN FieldsAcc(Tail(s), <<>>, done)
        ELSE FieldsAcc(Tail(s), Append(cur, Head(s)), acc)

\* the host names that a line of the host file maps to its address
NamesOfLine(line) ==
    LET fields == FieldsAcc(line, <<>>, <<>>)
    IN  {fields[i] : i \in 2..Len(fields)}

\* the host names that the content of a host file maps to an address
NamesOf(content) ==
    UNION {NamesOfLine(Split(content)[i]) : i \in 1..Len(Split(content))}

\* C20: an add that names a group and an address and whose domain is, in any
\* case of letters, an entry of the blocklist or a dotted subdomain of one is
\* answered BLOCKED_DOMAIN; no host of the configuration in memory or on disk
\* has such a domain, and the host file maps no such domain to an address.
C20_Blocklist ==
    /\ \A c \in Conns :
          (/\ conn[c].pc = "respond" /\ conn[c].req.Type = "add"
           /\ conn[c].req.HasPayload /\ conn[c].req.IP # <<>>
           /\ conn[c].req.Group # "" /\ Blocklisted(conn[c].req.Domain))
              => conn[c].loc.code = "BLOCKED_DOMAIN"
    /\ \A k \in {cfg, cfgFile} : \A p \in HostPositions(k) :
          ~Blocklisted(HostAt(k, p).Domain)
    /\ \A name \in NamesOf(hostFile) : ~Blocklisted(name)

-----------------------------------------------------------------------------
(* Claims about set and preset *)

\* the enabled hosts of k, other than the host with the alias, that map the
\* domain of the host with the alias
Rivals(k, alias) ==
    {p \in HostPositions(k) :
        /\ HostAt(k, p).Alias # alias
        /\ HostAt(k, p).Domain = HostAt(k, FindHostByAlias(k, alias)).Domain
        /\ HostAt(k, p).Enabled}

\* the line is a line of a managed region of content
InRegion(content, line) ==
    LET lines == Split(content)
    IN  \E i, j, n \in 1..Len(lines) :
            /\ i < n /\ n < j
            /\ lines[i] = markerStart /\ lines[j] = markerEnd /\ lines[n] = line
            /\ \A m \in (i + 1)..(j - 1) : lines[m] \notin {markerStart, markerEnd}

\* C21: a set that enables an alias of the configuration without force, while
\* another alias with the same domain is enabled, is answered CONFLICT and the
\* configuration, its file, the host file and the backups are as they were
\* when the request was read; with force, or without such an alias, the only
\* failure is a failed write, and when the answer is OK the entry and every
\* such other entry are enabled in the configuration and are lines of the
\* managed region.
C21_SetConflict ==
    \A c \in Conns :
        LET x == conn[c]
            old == x.loc.before[1]
            rivals == Rivals(old.cfg, x.req.Alias)
            both == rivals \cup {FindHostByAlias(old.cfg, x.req.Alias)}
        IN  (/\ x.pc = "respond" /\ x.req.Type = "set" /\ x.req.HasPayload
             /\ x.req.Enabled /\ FindHostByAlias(old.cfg, x.req.Alias) # NoHost)
            => IF ~x.req.Force /\ rivals # {}
               THEN /\ x.loc.code = "CONFLICT"
                    /\ old = [hostFile |-> hostFile, backups |-> backups,
                              cfg |-> cfg, cfgFile |-> cfgFile]
               ELSE /\ x.loc.code \in {"OK", "INTERNAL_ERROR"}
                    /\ x.loc.code = "INTERNAL_ERROR" => x.loc.msg # ""
                    /\ x.loc.code = "OK" =>
                          \A p \in both :
                              /\ HostAt(cfg, p) = [HostAt(old.cfg, p) EXCEPT !.Enabled = TRUE]
                              /\ HostAt(cfgFile, p) = HostAt(cfg, p)
                              /\ InRegion(hostFile, HostLine(HostAt(cfg, p)))

\* a set with force is about to be answered OK although another alias with
\* the domain is enabled, after the same set without force was answered CONFLICT
C21_Witness ==
    /\ Answers(1, "set", "OK")
    /\ conn[1].req.Force
    /\ Rivals(conn[1].loc.before[1].cfg, conn[1].req.Alias) # {}
    /\ conn[1].sent = <<"CONFLICT">>

\* configuration new is configuration old after the preset with the name:
\* the hosts whose alias is in the disable list are disabled, the other hosts
\* whose alias is in the enable list are enabled, and nothing else differs
PresetApplied(old, new, name) ==
    LET preset == old.Presets[FindPreset(old, name)]
        E == {preset.Enable[i] : i \in 1..Len(preset.Enable)}
        D == {preset.Disable[i] : i \in 1..Len(preset.Disable)}
    IN  /\ new.Presets = old.Presets
        /\ Len(new.Groups) = Len(old.Groups)
        /\ \A i \in 1..Len(old.Groups) :
              /\ new.Groups[i].Name = old.Groups[i].Name
              /\ Len(new.Groups[i].Hosts) = Len(old.Groups[i].Hosts)
        /\ \A p \in HostPositions(old) :
              HostAt(new, p) =
                  [HostAt(old, p) EXCEPT !.Enabled =
                      IF HostAt(old, p).Alias \in D THEN FALSE
                      ELSE IF HostAt(old, p).Alias \in E THEN TRUE
                      ELSE @]

\* C22: once a preset request that names a preset of the configuration has
\* applied it, the configuration is the one of PresetApplied, whatever aliases
\* the lists name, and the request is not answered NOT_FOUND.
C22_ApplyPreset ==
    \A c \in Conns :
        LET x == conn[c]
            old == x.loc.before[1].cfg
        IN  (/\ x.req.Type = "preset" /\ x.req.HasPayload
             /\ x.pc \notin {"idle", "read", "begin", "mutate"}
             /\ FindPreset(old, x.req.Name) # 0)
            => /\ PresetApplied(old, cfg, x.req.Name)
               /\ x.loc.code # "NOT_FOUND"

\* the preset whose lists share an alias and name an unknown alias has been
\* applied and is about to be answered OK
C22_Witness ==
    /\ Answers(1, "preset", "OK")
    /\ conn[1].req.Name = "mix"
    /\ ~HostAt(cfg, FindHostByAlias(cfg, <<"c">>)).Enabled
    /\ HostAt(cfg, FindHostByAlias(cfg, <<"a">>)).Enabled
    /\ HostAt(cfg, FindHostByAlias(cfg, <<"b">>)).Enabled

-----------------------------------------------------------------------------
(* Claims about the configuration watcher *)

\* C23: once the configuration file has been replaced by a valid document
\* with auto_apply while no client has sent a request, the host file comes to
\* hold one managed region with the enabled entries of that document, unless
\* the file is replaced again or a client sends a request.
C23_WatcherReconciles ==
    (cfgFile = EditedConfig(TRUE) /\ \A c \in Conns : conn[c].lines = 0)
        ~> \/ cfgFile # EditedConfig(TRUE)
           \/ \E c \in Conns : conn[c].lines > 0
           \/ OneRegion(hostFile, EditedConfig(TRUE))

\* the configuration file cannot be read, is no YAML, or holds an invalid
\* address
BadFile(file) ==
    \/ file \in {Unreadable, Unparsable}
    \/ \E p \in HostPositions(file) : HostAt(file, p).IP = <<"999.0.0.1">>

\* C24: a Load of a configuration file that cannot be read, is no YAML or is
\* invalid leaves the in-memory configuration as it was and the observer is
\* not called; a Load of a valid file replaces the configuration by the
\* file's and calls the observer once, with it.
C24_FailedReload ==
    [][watcher'.loads > watcher.loads =>
          IF BadFile(cfgFile)
          THEN cfg' = cfg /\ watcher'.calls = watcher.calls
          ELSE cfg' = cfgFile /\ watcher'.calls = Append(watcher.calls, cfgFile)]_vars

\* the watcher has loaded an edited configuration and called the observer,
\* then it has failed to load an invalid file, and the edited configuration
\* is still the one in memory
C24_Witness ==
    /\ watcher.loads = 2 /\ ~watcher.pending
    /\ watcher.calls = <<EditedConfig(FALSE)>>
    /\ cfg = EditedConfig(FALSE)
    /\ cfgFile \notin {Unreadable, Unparsable}
    /\ BadFile(cfgFile)

-----------------------------------------------------------------------------
(* Claims about the reconcile *)

\* C25: when a sync is answered OK right after another sync that was answered
\* OK, with no change of the configuration, the second has left the host file
\* as the first left it and each of the two has added one file to the backup
\* directory, which was empty.
C25_ReconcileTwice ==
    \A c \in Conns :
        (/\ Answers(c, "sync", "OK")
         /\ conn[c].sent = <<"OK">>
         /\ \E i \in 1..Len(auditLog.entries) : auditLog.entries[i].action = "sync"
         /\ watcher.loads = 0)
        => /\ hostFile = conn[c].loc.before[1].hostFile
           /\ Cardinality(DOMAIN conn[c].loc.before[1].backups) = 1
           /\ Cardinality(DOMAIN backups) = 2

\* C26: when a handler has rebuilt the managed region and is about to answer
\* OK, the entries that ReadManagedEntries reads from the host file are, as a
\* multiset, the enabled entries that the handler has written.
C26_RoundTrip ==
    \A c \in Conns :
        LET written == SelectSeq(conn[c].loc.entries, LAMBDA e : e.Enabled)
            read == ReadManagedEntries(hostFile)
            Count(q, e) == Cardinality({i \in 1..Len(q) : q[i] = e})
        IN  (/\ conn[c].pc = "respond" /\ conn[c].loc.code = "OK"
             /\ conn[c].req.Type # "rollback"
             /\ \E i \in 1..Len(conn[c].loc.stages) : conn[c].loc.stages[i] = "rebuild")
            => /\ Len(read) = Len(written)
               /\ \A i \in 1..Len(read) : Count(read, read[i]) = Count(written, read[i])

-----------------------------------------------------------------------------
(* Claims about groups *)

\* C28: an add_group that names a group of the configuration is answered
\* CONFLICT; a delete_group that names no group of it is answered NOT_FOUND;
\* a rename_group is answered CONFLICT when the new name is the name of a
\* group and the old name is one too, and NOT_FOUND when neither is.
C28_GroupErrors ==
    \A c \in Conns :
        LET r == conn[c].req
            old == conn[c].loc.before[1].cfg
            names == {old.Groups[i].Name : i \in 1..Len(old.Groups)}
        IN  (conn[c].pc = "respond" /\ r.HasPayload /\ r.Name # "")
            => /\ (r.Type = "add_group" /\ r.Name \in names)
                     => conn[c].loc.code = "CONFLICT"
               /\ (r.Type = "delete_group" /\ r.Name \notin names)
                     => conn[c].loc.code = "NOT_FOUND"
               /\ (r.Type = "rename_group" /\ r.NewName # "")
                     => /\ (r.Name \in names /\ r.NewName \in names)
                              => conn[c].loc.code = "CONFLICT"
                        /\ (r.Name \notin names /\ r.NewName \notin names)
                              => conn[c].loc.code = "NOT_FOUND"

-----------------------------------------------------------------------------
(* Claims about the audit log *)

Recorded ==
    {"set", "sync", "preset", "rollback", "add", "delete", "add_group", "delete_group",
     "rename_group", "add_preset", "delete_preset"}

\* the connections whose request leaves its handler in this step, and those
\* that are refused in this step
Leaving == {c \in Conns : conn[c].pc = "respond" /\ conn'[c].pc = "idle"}
Refused == {c \in Conns : conn[c].authorized = "unknown" /\ conn'[c].authorized = "no"}

-----------------------------------------------------------------------------
(* Claims about lines that are no JSON *)

\* C30: when the server reads a line that is no JSON from an authorized
\* connection it writes INVALID_REQUEST, routes nothing to a handler and goes
\* on reading; a well-formed line it reads, before or after such a line, is
\* routed to handleRequest; the connection is closed only when the peer has
\* closed its end and every line it sent was read, and by then every line
\* has its response.
C30_BadLine ==
    [][\A c \in Conns :
          /\ (conn[c].st = "reading" /\ conn[c].inbox # <<>>
                  /\ conn'[c].inbox = Tail(conn[c].inbox))
                => IF ~Head(conn[c].inbox).json
                   THEN /\ conn'[c].sent = Append(conn[c].sent, "INVALID_REQUEST")
                        /\ conn'[c].st = "reading" /\ conn'[c].pc = "idle"
                        /\ conn'[c].handled = conn[c].handled
                   ELSE /\ conn'[c].handled = conn[c].handled + 1
                        /\ conn'[c].req = Head(conn[c].inbox).req
                        /\ conn'[c].sent = conn[c].sent
                        /\ conn'[c].st = "reading"
          /\ (conn[c].st = "reading" /\ conn'[c].st # "reading")
                => /\ conn[c].inbox = <<>> /\ conn[c].pc = "idle"
                   /\ Len(conn[c].sent) = conn[c].lines]_vars

\* the first line was no JSON, the second was a request that a handler
\* answered OK, and then the peer closed the connection
C30_Witness ==
    /\ conn[1].st = "closed" /\ conn[1].lines = 2 /\ conn[1].handled = 1
    /\ conn[1].sent = <<"INVALID_REQUEST", "OK">>

-----------------------------------------------------------------------------
(* Claims about the default group *)

\* C31: the configuration that the manager holds, after the start and after
\* every reload by the watcher, has at least one group.
C31_DefaultGroup == Len(cfg.Groups) >= 1

-----------------------------------------------------------------------------
(* Claims about shutdown *)

\* C32 as stated: a failed accept ends the loop exactly when the stop signal
\* is set; once Stop has returned the loop eventually exits, no connection is
\* accepted, and no request of any connection is routed to a handler.
C32_StopQuiesces ==
    /\ [][listener.loop = "failed" /\ listener'.loop # "failed"
             => listener'.loop = IF listener.stopCh = "closed" THEN "exited" ELSE "accept"]_vars
    /\ [][listener.stop = "done"
             => \A c \in Conns : /\ conn[c].st = "none" => conn'[c].st = "none"
                                 /\ conn'[c].handled = conn[c].handled]_vars
    /\ (listener.stop = "done") ~> (listener.loop = "exited")

\* C32, amended: a failed accept ends the loop exactly when the stop signal
\* is set; once Stop has returned the loop eventually exits and no connection
\* is accepted any more.
C32_Stop ==
    /\ [][listener.loop = "failed" /\ listener'.loop # "failed"
             => listener'.loop = IF listener.stopCh = "closed" THEN "exited" ELSE "accept"]_vars
    /\ [][listener.stop = "done"
             => \A c \in Conns : conn[c].st = "none" => conn'[c].st = "none"]_vars
    /\ (listener.stop = "done") ~> (listener.loop = "exited")

\* Stop has returned and the loop has exited, one connection was never
\* accepted, and a request of the other, sent to the open connection, was
\* handled after Stop: its audit entry is missing
C32_Witness ==
    /\ listener.stop = "done" /\ listener.loop = "exited"
    /\ conn[2].st = "none"
    /\ conn[1].sent = <<"OK">> /\ conn[1].handled = 1
    /\ Len(cfg.Groups) = 2 /\ auditLog.entries = <<>>

-----------------------------------------------------------------------------
(* Claims about the client *)

\* the requests written to the connection whose response no call has taken
InFlight == conn[1].lines - client.read

\* every call that has returned a response returned the one to its request
OwnResponses ==
    \A k \in Callers : client.calls[k].pc = "done" => client.calls[k].got = client.calls[k].wrote

\* C33 as stated: at most one caller is between its write and its return,
\* at most one request is in flight, and every call that has returned a
\* response has returned the response to the line it wrote.
C33_OneInFlight ==
    /\ Cardinality({k \in Callers : client.calls[k].pc \in {"locked", "written"}}) <= 1
    /\ InFlight <= 1
    /\ OwnResponses

\* C33, amended: at most one caller is between its write and its return;
\* and as long as no call on the connection has failed after writing its
\* request, at most one request is in flight and every call that has
\* returned a response has returned the response to the line it wrote.
C33_Serialized ==
    /\ Cardinality({k \in Callers : client.calls[k].pc \in {"locked", "written"}}) <= 1
    /\ ~client.broken => InFlight <= 1 /\ OwnResponses

\* both callers have made a call, one after the other, and each has got the
\* response to its own request: an error for the unknown type, OK for the other
C33_Witness ==
    /\ client.calls[1].pc = "done" /\ client.calls[2].pc = "done"
    /\ client.calls[1].got = 2 /\ client.calls[2].got = 1
    /\ conn[1].sent = <<"OK", "INVALID_REQUEST">>
    /\ ~client.broken

-----------------------------------------------------------------------------
(* Claims about the rate limiter *)

Pids == {conn[c].creds.PID : c \in {d \in Conns : ~conn[d].creds.nil}}

\* the admitted timestamps of pid that the limiter holds within the trailing
\* window
Held(pid) == ValidCount(BucketOf(buckets, pid), clock)

\* C34: for every pid and every time t, at most Limit requests of the pid
\* were admitted in the window of length Window that ends at t, whatever the
\* connections they came on; an attempt is admitted exactly when fewer than
\* Limit requests of its pid were admitted within the trailing window, which
\* is also what the ring buffer holds; an admitted attempt records its
\* timestamp and a rejected one leaves the buckets as they are.
C34_WindowBound ==
    /\ [](\A pid \in Pids : \A t \in 0..clock :
              Cardinality(Admissions(pid, t - Window) \ Admissions(pid, t)) <= Limit)
    /\ [](\A pid \in Pids : Held(pid) = Cardinality(Admissions(pid, clock - Window)))
    /\ [][\A c \in Conns :
             ReadsRequest(c) =>
                 LET pid == conn[c].creds.PID
                     admitted == conn'[c].handled = conn[c].handled + 1
                 IN  /\ admitted <=> Held(pid) < Limit
                     /\ admitted => Held(pid)' = Held(pid) + 1
                     /\ ~admitted => buckets' = buckets]_vars

\* two connections of one pid: a request of each was admitted, the next was
\* rejected, and after the window a third was admitted, into the slot of the
\* ring that held the oldest
C34_Witness ==
    /\ ~conn[1].creds.nil /\ ~conn[2].creds.nil
    /\ conn[1].creds.PID = conn[2].creds.PID
    /\ conn[1].sent = <<"OK", "RATE_LIMITED">>
    /\ conn[2].sent = <<"OK", "OK">>
    /\ buckets[conn[1].creds.PID].head = 1

-----------------------------------------------------------------------------
(* Claims about the request counter *)

\* the well-formed lines of connection c that passed the rate limiter
RoutedOn(c) ==
    Cardinality({i \in 1..Len(conn[c].log) :
                    conn[c].log[i].ev = "read" /\ conn[c].log[i].what = "routed"})

Routed == RoutedOn(1) + RoutedOn(2)

\* C35: the request counter is the number of well-formed lines that passed
\* the rate limiter, on all connections together; it never decreases; a line
\* that is no JSON or is answered RATE_LIMITED leaves it as it is; and the
\* count that handleStatus reports is the counter at the time it reads it,
\* the status request itself included.
C35_RequestCount ==
    /\ [](requestCount = Routed)
    /\ [][requestCount' >= requestCount]_vars
    /\ [][\A c \in Conns :
             ReadsRequest(c) \/ (Len(conn'[c].log) > Len(conn[c].log)
                                    /\ conn'[c].log[Len(conn[c].log) + 1].what = "bad")
                 => requestCount' = requestCount
                        + (IF conn'[c].sent = conn[c].sent THEN 1 ELSE 0)]_vars
    /\ [][\A c \in Conns :
             (conn[c].pc = "begin" /\ conn[c].req.Type = "status" /\ conn'[c].pc = "respond")
                 => conn'[c].loc.observed = << <<"status", Routed>> >>]_vars

\* a status request is about to report 2, itself included, while a line
\* that was no JSON and a request that was answered RATE_LIMITED have been
\* read and not counted
C35_Witness ==
    \E c \in Conns :
        /\ conn[c].pc = "respond" /\ conn[c].loc.observed = << <<"status", 2>> >>
        /\ \E d \in Conns : \E i \in 1..Len(conn[d].sent) : conn[d].sent[i] = "RATE_LIMITED"
        /\ \E d \in Conns : \E i \in 1..Len(conn[d].sent) : conn[d].sent[i] = "INVALID_REQUEST"

-----------------------------------------------------------------------------
(* Claims about the consistency of configuration and host file *)

\* the last request that the audit log records was answered OK
LastOK ==
    /\ auditLog.entries # <<>>
    /\ auditLog.entries[Len(auditLog.entries)].success

\* C36: when no request is in flight, no reload is pending and the last
\* set, sync, preset, rollback, add, delete, group or preset request was
\* answered OK, the configuration file is the configuration in memory and the
\* host file has one managed region, which holds the enabled entries of that
\* configuration.
C36_Consistent ==
    (Quiet /\ ~watcher.pending /\ LastOK) => cfgFile = cfg /\ OneRegion(hostFile, cfg)

-----------------------------------------------------------------------------
(* Claims about reloads that the daemon's own Save triggers *)

\* configuration c has a group of the given name
HasGroup(c, name) == \E i \in 1..Len(c.Groups) : c.Groups[i].Name = name

\* the handler of connection c is about to answer OK to add_group qa
AddedQa(c) ==
    /\ conn[c].pc = "respond"
    /\ conn[c].req.Type = "add_group"
    /\ conn[c].req.Name = "qa"
    /\ conn[c].loc.code = "OK"

\* C37: a reload that the daemon's own Save has triggered loses no mutation:
\* when a handler answers OK to add_group qa, the group is in the configuration
\* in memory and in the file that the handler's Save wrote, also when the
\* watcher has swapped the configuration while the handler ran.
C37_MutationKept ==
    \A c \in Conns : AddedQa(c) => HasGroup(cfg, "qa") /\ HasGroup(cfgFile, "qa")

-----------------------------------------------------------------------------
(* Claims about entries that share a domain *)

\* two enabled entries of configuration c have the same domain
SharedDomain(c) ==
    LET hosts == GetAllHosts(c.Groups)
    IN  \E i, j \in 1..Len(hosts) :
            /\ i # j
            /\ hosts[i].Enabled /\ hosts[j].Enabled
            /\ hosts[i].Domain = hosts[j].Domain

\* C38: from a configuration with no two enabled entries of one domain, and
\* with no request that uses force, no two enabled entries of the
\* configuration share a domain once the requests are answered.
C38_NoSharedDomain == Quiet => ~SharedDomain(cfg)

-----------------------------------------------------------------------------
(* Claims about the cleanup of the rate limiter *)

\* C39: Cleanup deletes the bucket of a pid only when none of its recorded
\* timestamps lies within the trailing window, and it never changes the result
\* of a later Allow: whenever Cleanup has run, the limiter admits a request of
\* a pid exactly when fewer than Limit requests of the pid were admitted within
\* the trailing window.
C39_Cleanup ==
    /\ [][\A pid \in DOMAIN buckets :
             pid \notin DOMAIN buckets' => ValidCount(buckets[pid], clock) = 0]_vars
    /\ [](\A pid \in Pids :
             Allowed(buckets, pid, clock)
                 <=> Cardinality(Admissions(pid, clock - Window)) < Limit)

\* Cleanup has deleted the bucket of a pid that had a request answered, and
\* the bucket of another pid, whose second request was then admitted into a
\* new bucket
C39_Witness ==
    \E c, d \in Conns :
        /\ ~conn[c].creds.nil /\ ~conn[d].creds.nil
        /\ conn[c].creds.PID \notin DOMAIN buckets
        /\ conn[c].sent # <<>>
        /\ conn[d].creds.PID \in DOMAIN buckets
        /\ buckets[conn[d].creds.PID].count = 1
        /\ Len(conn[d].sent) = 2

-----------------------------------------------------------------------------
(* Claims about sync as the way to recover *)

\* the handler of connection c is about to answer OK to a sync
SyncOK(c) ==
    /\ conn[c].pc = "respond"
    /\ conn[c].req.Type = "sync"
    /\ conn[c].loc.code = "OK"

\* the sync of connection c is about to rename its temporary file onto a host
\* file that is reconciled already
SyncAgain(c) ==
    /\ conn[c].pc = "rename"
    /\ conn[c].req.Type = "sync"
    /\ OneRegion(hostFile, cfg)

\* C40: whatever failed, was applied in part or was rolled back before, a sync
\* that is answered OK leaves the host file with one managed region that holds
\* the enabled entries of the configuration in memory, and a sync of a host
\* file in that state leaves its content as it is.
C40_SyncRecovers ==
    /\ [](\A c \in Conns : SyncOK(c) => OneRegion(hostFile, cfg))
    /\ [][\A c \in Conns : SyncAgain(c) => hostFile' = hostFile]_vars

====
